---- MODULE Spec2Model ----
(***************************************************************************)
(* A model of the nf_tables rule-chain evaluator, nft_do_chain, of         *)
(* net/netfilter/nf_tables_core.c: one packet traversal over a rule set,   *)
(* with the jump stack, the generation cursor, the trace emitter and the   *)
(* base chain's statistics.                                                *)
(***************************************************************************)
EXTENDS Integers, Sequences, FiniteSets, TLC

(***************************************************************************)
(* Bounds of the model.                                                    *)
(***************************************************************************)
\* Number of chains of the table; chain 1 is the base chain of the hook.
NChains == 2
\* Largest number of rules of a rule set, over all its chains.
MaxRules == 2
\* Number of network namespaces.
NNets == 2
\* Longest recorded history (rule evaluations, trace events); later events
\* are counted as lost, not recorded.
MaxLog == 20

(***************************************************************************)
(* Program constants.                                                      *)
(***************************************************************************)
NFT_JUMP_STACK_SIZE == 16

\* Netfilter hook verdicts and the mask of their low byte.
NF_DROP == 0
NF_ACCEPT == 1
NF_STOLEN == 2
NF_QUEUE == 3
NF_REPEAT == 4
NF_VERDICT_MASK == 255

\* enum nft_verdicts: the internal verdicts, negative values that
\* regs.verdict.code (a u32) holds in two's complement. A code is kept here
\* as the signed value of its 32 bits.
NFT_CONTINUE == -1
NFT_BREAK == -2
NFT_JUMP == -3
NFT_GOTO == -4
NFT_RETURN == -5

\* enum nft_trace_types
NFT_TRACETYPE_POLICY == "policy"
NFT_TRACETYPE_RETURN == "return"
NFT_TRACETYPE_RULE == "rule"

\* code & NF_VERDICT_MASK: the low byte of the 32 bits (of a negative code
\* too: -1 & 0xff = 0xff).
VerdictMask(code) == code % (NF_VERDICT_MASK + 1)

Chains == 1 .. NChains
basechain == 1
Nets == 1 .. NNets
Gens == {0, 1}

\* The list head of chain->rules seen as a rule position, and the NULL rule.
HEAD == 0
NULL == 0

VARIABLES
    rules,              \* chain->rules: per chain, the rules in list order
    policy,             \* nft_base_chain(basechain)->policy
    chain_net,          \* nft_base_chain(basechain)->pnet
    nft_gencursor,      \* net->nft.gencursor, per namespace
    nft_trace_enabled,  \* the static key
    txn,                \* the state of the control plane's transaction
    stats,              \* this cpu's nft_stats of the base chain
    pc,                 \* position of the traversal in nft_do_chain
    pkt,                \* the packet: its namespace, skb->len, skb->nf_trace
    chain, rule, rulenum, regs, stackptr, jumpstack, gencursor, info,
    retval,             \* value returned by nft_do_chain
    tracelog,           \* events handed to nft_trace_notify / nf_log_trace
    evlog,              \* history: the rules whose expressions were evaluated
    nevals,             \* history: number of rule evaluations (saturating)
    callers,            \* history: the jumps not yet returned from
    lost,               \* history events not recorded (beyond MaxLog)
    warned,             \* WARN_ON(1) fired
    prev,               \* history: the call of nft_do_chain before this one
    percpu,             \* the calls of nft_do_chain on the other cpus
    tally,              \* history: the earlier calls on this cpu and how they ended
    q_mq_ops,           \* dm: md->queue->mq_ops is set
    all_blk_mq,         \* dm: dm_table_all_blk_mq_devices(table)
    pending,            \* dm: md->pending[rw]
    q_stopped,          \* dm: blk_queue_stopped(q) / blk_mq_queue_stopped(q)
    queue_lock,         \* dm: the holder of q->queue_lock
    reqs,               \* dm: the original requests and their tio
    fn,                 \* dm: the activation of dm_old_request_fn
    span_entries,       \* span: mlxsw_sp->span.entries
    sbib,               \* span: the mirroring shared buffer of each port (register SBIB)
    mpar,               \* span: the analyzer each (port, direction) is bound to (register MPAR)
    mpat,               \* span: the port analyzers of the hardware (register MPAT)
    span_ret,           \* span: the last call and what it returned
    modst,              \* module: position in nf_tables_core_module_init / _exit
    registry,           \* module: the expression types registered, in list order
    modlog              \* module: history of the calls that registered and unregistered

\* The variables of request-based dm.
dmvars == <<q_mq_ops, all_blk_mq, pending, q_stopped, queue_lock, reqs, fn>>

\* The variables of the SPAN module of mlxsw.
spanvars == <<span_entries, sbib, mpar, mpat, span_ret>>

\* The variables of the registration of the basic expression types.
modvars == <<modst, registry, modlog>>

\* The variables outside nf_tables.
extvars == <<dmvars, spanvars, modvars>>

vars == <<rules, policy, chain_net, nft_gencursor, nft_trace_enabled, txn, stats,
          pc, pkt, chain, rule, rulenum, regs, stackptr, jumpstack,
          gencursor, info, retval, tracelog, evlog, nevals, callers, lost,
          warned, prev, percpu, tally, extvars>>

cfgvars == <<rules, policy, chain_net, nft_gencursor, nft_trace_enabled, txn, prev,
             percpu, tally, extvars>>


(***************************************************************************)
(* Data: expressions, rules, rule sets.                                    *)
(***************************************************************************)
\* struct nft_verdict: the verdict register.
Verdict(code, target) == [code |-> code, chain |-> target]

\* An expression of the generic kind: its eval leaves the verdict register
\* alone (code NFT_CONTINUE) or sets it to (code, chain).
GenericExpr(code, target) == [ops |-> "generic", code |-> code, chain |-> target]

\* Number of data registers of struct nft_regs that the model keeps.
NRegs == 2
Regs == 1 .. NRegs
ZeroData == [r \in Regs |-> 0]

\* struct nft_cmp_fast_expr behind nft_cmp_fast_ops: source register, length
\* in bits, immediate.
CmpFastExpr(sreg, len, data) ==
    [ops |-> "cmp_fast", sreg |-> sreg, len |-> len, data |-> data]

\* enum nft_payload_bases, the two that the fast load knows.
NFT_PAYLOAD_NETWORK_HEADER == "network"
NFT_PAYLOAD_TRANSPORT_HEADER == "transport"

\* struct nft_payload behind nft_payload_fast_ops: base, offset and length
\* in bytes, destination register.
PayloadFastExpr(base, offset, len, dreg) ==
    [ops |-> "payload_fast", base |-> base, offset |-> offset, len |-> len,
     dreg |-> dreg]

\* struct nft_rule: handle, genmask (bit g set: not active in generation g)
\* and the expressions, in order.
Rule(handle, genmask, exprs) == [handle |-> handle, genmask |-> genmask, exprs |-> exprs]

\* NF_QUEUE_NR(1): verdict NF_QUEUE with queue number 1 in the upper 16 bits.
NF_QUEUE_NR1 == NF_QUEUE + 2 ^ 16

\* A rule of one expression that sets the verdict (code, target).
VerdictRule(handle, genmask, code, target) ==
    Rule(handle, genmask, <<GenericExpr(code, target)>>)

\* The rule sets of the initial states. A rule is drawn from
\*   - the match-only rules: a rule that matches and leaves NFT_CONTINUE, a
\*     rule that does not match (NFT_BREAK), and a drop rule that is not
\*     active in one of the two generations;
\*   - the deciding rules, active in both generations: NFT_RETURN, a hook
\*     verdict, or a jump or goto to any chain but the base chain (a base
\*     chain is no jump target).
\* A chain holds at most one deciding rule, anywhere among its match-only
\* rules, and a rule set at most MaxRules rules.
MatchKinds == { <<0, NFT_CONTINUE, NULL>>, <<0, NFT_BREAK, NULL>>,
                <<1, NF_DROP, NULL>>, <<2, NF_DROP, NULL>> }
DecidingCodes == {NFT_RETURN, NF_ACCEPT, NF_DROP, NF_QUEUE_NR1, NF_STOLEN, NF_REPEAT}
DecidingKinds == { <<0, c, NULL>> : c \in DecidingCodes }
                 \cup { <<0, c, t>> : c \in {NFT_JUMP, NFT_GOTO}, t \in Chains \ {basechain} }

IsDeciding(r) == r.genmask = 0 /\ r.exprs[1].code \notin {NFT_CONTINUE, NFT_BREAK}
HasDeciding(rs, c) == \E i \in 1 .. Len(rs[c]) : IsDeciding(rs[c][i])

\* The rule set with one more rule, of kind k, at the tail of chain c.
AddRule(rs, c, k) ==
    [rs EXCEPT ![c] = Append(@, VerdictRule(10 * c + Len(@) + 1, k[1], k[2], k[3]))]

RECURSIVE RuleSetsUpTo(_)
RuleSetsUpTo(n) ==
    IF n = 0 THEN { [c \in Chains |-> <<>>] }
    ELSE LET S == RuleSetsUpTo(n - 1)
         IN  S \cup { AddRule(rs, c, k) : rs \in S, c \in Chains, k \in MatchKinds }
               \cup UNION { { AddRule(rs, c, k) : k \in DecidingKinds } :
                            <<rs, c>> \in { x \in S \X Chains : ~HasDeciding(x[1], x[2]) } }

RuleSets == RuleSetsUpTo(MaxRules)

TotalRules(rs) == LET RECURSIVE Sum(_)
                      Sum(c) == IF c = 0 THEN 0 ELSE Len(rs[c]) + Sum(c - 1)
                  IN  Sum(NChains)

(***************************************************************************)
(* Packets: the inputs of nft_do_chain.                                    *)
(***************************************************************************)
\* Largest skb->len of a packet.
MaxPktLen == 3

\* The bytes that packets are made of: the protocol numbers of TCP and UDP.
ByteVals == {6, 17}
ByteSeqs == UNION { [1 .. k -> ByteVals] : k \in 1 .. MaxPktLen }

\* A packet: its namespace, the bytes of the linear skb from the network
\* header to the tail, skb->len, skb->nf_trace and pkt->xt.thoff.
Packets == { [net |-> n, len |-> Len(b), nf_trace |-> t, bytes |-> b, thoff |-> 1] :
             n \in Nets, b \in ByteSeqs, t \in BOOLEAN }
NoPkt == [net |-> 0, len |-> 0, nf_trace |-> FALSE, bytes |-> <<>>, thoff |-> 0]

\* A jump stack frame; the array starts without meaningful content.
\* A frame that does not keep the rule number.
Frame_norulenum(c, r, n) == [chain |-> c, rule |-> r, rulenum |-> 0]

\* struct nft_jumpstack
Frame(c, r, n) == [chain |-> c, rule |-> r, rulenum |-> n]
NoFrame == Frame(0, HEAD, 0)

\* struct nft_traceinfo.
NoInfo == [trace |-> FALSE, chain |-> 0, rule |-> NULL, type |-> "none"]

(***************************************************************************)
(* Helpers of the traversal.                                               *)
(***************************************************************************)
\* A guard that takes every namespace for the chain's own.
net_eq_any(a, b) == TRUE

\* net_eq(net, chain_net)
net_eq(a, b) == a = b

\* genmask & (1 << g)
GenmaskBit(genmask, g) == (genmask \div (2 ^ g)) % 2 = 1

\* A test that looks at the bit of generation 0 whatever the generation of
\* the traversal, and one that looks at the bit of the namespace's current
\* generation instead of the one sampled at line 132.
RuleInactive_bit0(r, g) == GenmaskBit(r.genmask, 0)
RuleInactive_live(r, g) == GenmaskBit(r.genmask, nft_gencursor[chain_net])

\* Line 150: the test that skips a rule.
RuleInactive(r, g) == GenmaskBit(r.genmask, g)

\* Position of the rule with handle h in chain c's list; 0 for the list head.
Pos(c, h) == IF h = HEAD THEN 0
             ELSE CHOOSE i \in 1 .. Len(rules[c]) : rules[c][i].handle = h

\* list_for_each_entry_continue_rcu: is there a rule after position h, and
\* which.
HasNext(c, h) == Pos(c, h) < Len(rules[c])
NextRule(c, h) == rules[c][Pos(c, h) + 1]

\* History, recorded up to MaxLog events.
Record(log, e) == IF Len(log) < MaxLog THEN Append(log, e) ELSE log
Over(log, seq) == seq # <<>> /\ Len(log) >= MaxLog

\* The count of rule evaluations is kept up to one more than the number of
\* rules plus the capacity of the jump stack.
EvalCap == TotalRules(rules) + NFT_JUMP_STACK_SIZE + 1
Count(n) == IF n < EvalCap THEN n + 1 ELSE n

\* nft_trace_init
nft_trace_init(inf) == [inf EXCEPT !.trace = TRUE]

\* A trace call that does not look at info->trace.
nft_trace_packet_anyinfo(inf, c, r, n, type) ==
    IF nft_trace_enabled
    THEN LET i1 == [inf EXCEPT !.rule = r]
         IN  IF ~pkt.nf_trace
             THEN [info |-> i1, emit |-> <<>>]
             ELSE [info |-> [i1 EXCEPT !.chain = c, !.type = type],
                   emit |-> <<[chain |-> c, rule |-> r, rulenum |-> n, type |-> type]>>]
    ELSE [info |-> inf, emit |-> <<>>]

\* A trace call that does not look at the static key.
nft_trace_packet_nokey(inf, c, r, n, type) ==
    LET i1 == [inf EXCEPT !.rule = r]
    IN  IF ~i1.trace \/ ~pkt.nf_trace
        THEN [info |-> i1, emit |-> <<>>]
        ELSE [info |-> [i1 EXCEPT !.chain = c, !.type = type],
              emit |-> <<[chain |-> c, rule |-> r, rulenum |-> n, type |-> type]>>]

\* nft_trace_packet and __nft_trace_packet: the trace info afterwards and the
\* events emitted (none or one).
nft_trace_packet(inf, c, r, n, type) ==
    IF nft_trace_enabled
    THEN LET i1 == [inf EXCEPT !.rule = r]
         IN  IF ~i1.trace \/ ~pkt.nf_trace
             THEN [info |-> i1, emit |-> <<>>]
             ELSE [info |-> [i1 EXCEPT !.chain = c, !.type = type],
                   emit |-> <<[chain |-> c, rule |-> r, rulenum |-> n, type |-> type]>>]
    ELSE [info |-> inf, emit |-> <<>>]

\* The trace info and the trace log after the trace call t.
Emit(t) == /\ info' = t.info
           /\ tracelog' = (IF t.emit = <<>> THEN tracelog ELSE Record(tracelog, t.emit[1]))

\* expr->ops->eval of an expression of the generic kind.
GenericEval(expr, r) ==
    IF expr.code = NFT_CONTINUE THEN r
    ELSE [r EXCEPT !.verdict = Verdict(expr.code, expr.chain)]

\* a & b of two non-negative words.
RECURSIVE BitAnd(_, _)
BitAnd(a, b) ==
    IF a = 0 \/ b = 0 THEN 0
    ELSE (a % 2) * (b % 2) + 2 * BitAnd(a \div 2, b \div 2)

\* nft_cmp_fast_mask: the len low bits.
nft_cmp_fast_mask(len) == 2 ^ len - 1

\* A compare that forgets the mask, and one that breaks on a match.
nft_cmp_fast_eval_nomask(expr, r) ==
    IF r.data[expr.sreg] = expr.data THEN r
    ELSE [r EXCEPT !.verdict.code = NFT_BREAK]
nft_cmp_fast_eval_inverted(expr, r) ==
    IF BitAnd(r.data[expr.sreg], nft_cmp_fast_mask(expr.len)) = expr.data
    THEN [r EXCEPT !.verdict.code = NFT_BREAK]
    ELSE r

\* Lines 73-82.
nft_cmp_fast_eval(expr, r) ==
    LET mask == nft_cmp_fast_mask(expr.len)
    IN  IF BitAnd(r.data[expr.sreg], mask) = expr.data THEN r
        ELSE [r EXCEPT !.verdict.code = NFT_BREAK]

\* The byte at offset i from the network header; what lies at the tail and
\* beyond is not the packet's.
PktByte(p, i) == IF i < Len(p.bytes) THEN p.bytes[i + 1] ELSE 0

\* Lines 93-98: ptr as an offset from the network header.
PayloadPtr(expr, p) ==
    (IF expr.base = NFT_PAYLOAD_NETWORK_HEADER THEN 0 ELSE p.thoff) + expr.offset

\* Lines 103-109: the word that n bytes at ptr make in a zeroed register
\* of a little-endian machine, n being 2, 4 or else 1.
RECURSIVE LoadWord(_, _, _)
LoadWord(p, ptr, n) ==
    IF n = 0 THEN 0 ELSE PktByte(p, ptr) + 256 * LoadWord(p, ptr + 1, n - 1)
LoadLen(expr) == IF expr.len = 2 THEN 2 ELSE IF expr.len = 4 THEN 4 ELSE 1

\* A fast load without the check against the tail.
nft_payload_fast_eval_unchecked(expr, r, p) ==
    LET ptr == PayloadPtr(expr, p)
    IN  [ok |-> TRUE,
         regs |-> [r EXCEPT !.data[expr.dreg] = LoadWord(p, ptr, LoadLen(expr))],
         read |-> ptr .. ptr + LoadLen(expr) - 1]

\* Lines 84-111: whether the load was done, the registers afterwards and
\* the offsets of the bytes read.
nft_payload_fast_eval(expr, r, p) ==
    LET ptr == PayloadPtr(expr, p)
    IN  IF ptr + expr.len >= Len(p.bytes)
        THEN [ok |-> FALSE, regs |-> r, read |-> {}]
        ELSE [ok |-> TRUE,
              regs |-> [r EXCEPT !.data[expr.dreg] = LoadWord(p, ptr, LoadLen(expr))],
              read |-> ptr .. ptr + LoadLen(expr) - 1]

\* The generic eval of a payload expression: it copies the bytes when they
\* all lie within the packet and breaks the rule otherwise.
nft_payload_eval(expr, r, p) ==
    LET ptr == PayloadPtr(expr, p)
    IN  IF ptr + expr.len > Len(p.bytes)
        THEN [r EXCEPT !.verdict.code = NFT_BREAK]
        ELSE [r EXCEPT !.data[expr.dreg] = LoadWord(p, ptr, expr.len)]

\* Line 160: expr->ops->eval(expr, &regs, pkt).
ops_eval(expr, r) ==
    IF expr.ops = "payload_fast" THEN nft_payload_eval(expr, r, pkt)
    ELSE GenericEval(expr, r)

\* A dispatch that calls the generic eval after the fast compare as well.
Dispatch_both(expr, r) ==
    IF expr.ops = "cmp_fast"
    THEN [regs |-> nft_cmp_fast_eval(expr, nft_cmp_fast_eval(expr, r)),
          path |-> <<"cmp_fast", "eval">>, read |-> {}]
    ELSE IF expr.ops # "payload_fast"
    THEN [regs |-> ops_eval(expr, r), path |-> <<"eval">>, read |-> {}]
    ELSE LET f == nft_payload_fast_eval(expr, r, pkt)
         IN  IF ~f.ok
             THEN [regs |-> ops_eval(expr, f.regs), path |-> <<"payload_fast", "eval">>,
                   read |-> f.read]
             ELSE [regs |-> f.regs, path |-> <<"payload_fast">>, read |-> f.read]

\* Lines 156-160: the dispatch of one expression: the registers afterwards,
\* the functions called and the packet offsets read by the fast load.
Dispatch(expr, r) ==
    IF expr.ops = "cmp_fast"
    THEN [regs |-> nft_cmp_fast_eval(expr, r), path |-> <<"cmp_fast">>, read |-> {}]
    ELSE IF expr.ops # "payload_fast"
    THEN [regs |-> ops_eval(expr, r), path |-> <<"eval">>, read |-> {}]
    ELSE LET f == nft_payload_fast_eval(expr, r, pkt)
         IN  IF ~f.ok
             THEN [regs |-> ops_eval(expr, f.regs), path |-> <<"payload_fast", "eval">>,
                   read |-> f.read]
             ELSE [regs |-> f.regs, path |-> <<"payload_fast">>, read |-> f.read]

\* Lines 156-160: the registers after one expression.
EvalExpr(expr, r) == Dispatch(expr, r).regs

\* A loop over the expressions that does not stop at a verdict.
RECURSIVE EvalRun_all(_, _, _)
EvalRun_all(exprs, i, st) ==
    IF i > Len(exprs) THEN st
    ELSE LET d == Dispatch(exprs[i], st.regs)
         IN  EvalRun_all(exprs, i + 1,
                 [regs |-> d.regs,
                  seen |-> Append(st.seen, [index |-> i, path |-> d.path, read |-> d.read,
                                          code |-> d.regs.verdict.code])])

\* Lines 155-164, nft_rule_for_each_expr: the expressions from the i-th on,
\* until one leaves a verdict other than NFT_CONTINUE: the registers
\* afterwards and the expressions evaluated.
RECURSIVE EvalRun(_, _, _)
EvalRun(exprs, i, st) ==
    IF i > Len(exprs) THEN st
    ELSE LET d == Dispatch(exprs[i], st.regs)
             st1 == [regs |-> d.regs,
                     seen |-> Append(st.seen, [index |-> i, path |-> d.path, read |-> d.read,
                                          code |-> d.regs.verdict.code])]
         IN  IF d.regs.verdict.code # NFT_CONTINUE THEN st1
             ELSE EvalRun(exprs, i + 1, st1)

\* Lines 155-164: the registers after the expressions from the i-th on.
EvalExprs(exprs, i, r) == EvalRun(exprs, i, [regs |-> r, seen |-> <<>>]).regs

\* The verdict that the expressions of rule r leave, starting from
\* NFT_CONTINUE (line 146).
RuleVerdict(r) ==
    EvalExprs(r.exprs, 1, [verdict |-> Verdict(NFT_CONTINUE, NULL), data |-> ZeroData]).verdict

\* Lines 178-181: the verdicts that end the traversal, by their low byte.
IsTerminal(code) == VerdictMask(code) \in {NF_ACCEPT, NF_DROP, NF_QUEUE}

\* A BUG_ON that is off by one: it lets a push at index NFT_JUMP_STACK_SIZE
\* through.
JumpStackFull_late(sp) == sp > NFT_JUMP_STACK_SIZE

\* Line 189: the condition of BUG_ON.
JumpStackFull(sp) == sp >= NFT_JUMP_STACK_SIZE

\* Lines 187-210: the verdicts that fall out of the second switch.
FallsOut(code) == ~IsTerminal(code) /\ code \notin {NFT_JUMP, NFT_GOTO}

\* A second switch that traces nothing.
ReturnSwitch_silent(code, n) ==
    IF code = NFT_CONTINUE
    THEN [rulenum |-> n + 1, traced |-> FALSE, warn |-> FALSE]
    ELSE IF code = NFT_RETURN
    THEN [rulenum |-> n, traced |-> FALSE, warn |-> FALSE]
    ELSE [rulenum |-> n, traced |-> FALSE, warn |-> TRUE]

\* Lines 201-210: the cases of the second switch that fall out of it: the
\* rule number traced, whether nft_trace_packet is called, whether WARN_ON
\* fires.
ReturnSwitch(code, n) ==
    IF code = NFT_CONTINUE
    THEN [rulenum |-> n + 1, traced |-> TRUE, warn |-> FALSE]
    ELSE IF code = NFT_RETURN
    THEN [rulenum |-> n, traced |-> TRUE, warn |-> FALSE]
    ELSE [rulenum |-> n, traced |-> FALSE, warn |-> TRUE]

\* An end of the base chain that accepts whatever the policy.
BasePolicy_accept == NF_ACCEPT

\* Line 231: the value returned at the end of the base chain.
BasePolicy == policy

(***************************************************************************)
(* Initial states: a configured table, no traversal in progress.           *)
(***************************************************************************)
Policies == {NF_ACCEPT, NF_DROP}

\* Lines 125-133: the locals of nft_do_chain; regs is not initialized, d
\* is what the stack holds where its data registers lie.
\* No call before this one, whose data registers start as d.
NoPrev(d) == [ran |-> FALSE, retval |-> NF_DROP, tracelog |-> <<>>, trace |-> FALSE,
              data |-> d, now |-> d]

(***************************************************************************)
(* Request-based dm (drivers/md/dm-rq.c): the original requests of one     *)
(* mapped device, their tio and clone, md->pending and the queue.          *)
(***************************************************************************)
NRq == 2
MaxAttempts == 2

DM_MAPIO_SUBMITTED == 0
DM_MAPIO_REMAPPED == 1
DM_MAPIO_REQUEUE == 2
DM_MAPIO_DELAY_REQUEUE == 3
DM_ENDIO_INCOMPLETE == 1
DM_ENDIO_REQUEUE == 2
BLK_MQ_RQ_QUEUE_OK == 0
BLK_MQ_RQ_QUEUE_BUSY == 1
EIO == 5

\* The SPAN module of mlxsw: entries_count, the source ports, the devices
\* mirrored to and the inspected-port records there may be in all.
NSpanEntries == 2
NSpanPorts == 2
NToDevs == 3
MaxRecs == 2
\* enum mlxsw_sp_span_type
MLXSW_SP_SPAN_EGRESS == 0
MLXSW_SP_SPAN_INGRESS == 1
ENOENT == 2
ENOMEM == 12
EBUSY == 16
EEXIST == 17
EOPNOTSUPP == 95
\* The size of a cell of the shared buffer, in bytes.
cell_size == 96
\* A port of another mlxsw instance.
FOREIGN_PORT == -1
\* No analyzer is bound.
MPAR_UNBOUND == -1
\* No entry: NULL.
NO_ENTRY == -1

Rqs == 1 .. NRq
\* rq_data_dir: READ and WRITE
Dirs == {0, 1}

\* What a target's map_rq / clone_and_map_rq returns, what
\* blk_insert_cloned_request returns and what a target's rq_end_io returns.
MapResults == {DM_MAPIO_SUBMITTED, DM_MAPIO_REMAPPED, DM_MAPIO_REQUEUE,
               DM_MAPIO_DELAY_REQUEUE, -EIO}
DispatchResults == {BLK_MQ_RQ_QUEUE_OK, BLK_MQ_RQ_QUEUE_BUSY, -EIO}
EndioResults == {0, -EIO, DM_ENDIO_INCOMPLETE, DM_ENDIO_REQUEUE}

\* History of the last time the queue handed the request to the driver:
\* whether map_request was called or the target was busy, what map_request
\* returned, whether it requeued the original request itself, whether it
\* completed it itself, whether its caller requeued it, whether it handed it
\* on (to the target or as a dispatched clone).
NoAttempt == [made |-> FALSE, refused |-> FALSE, ret |-> 0, requeued |-> FALSE,
              completed |-> FALSE, by_caller |-> FALSE, handed |-> FALSE]

\* An original request of direction d on the queue of the mapped device:
\* where it is, rq->special (old path), REQ_FAILED, the fields of its tio and
\* the history of its clone, of its starts, completions and requeues.
Request(d) ==
    [st |-> "queued", dir |-> d, special |-> FALSE, failed |-> FALSE,
     ti |-> FALSE, clone |-> FALSE, error |-> 0,
     live |-> FALSE, obtained |-> 0, released |-> 0,
     starts |-> 0, completions |-> 0, requeues |-> 0, attempt |-> NoAttempt]

\* No dm_old_request_fn runs.
NoFn == [pc |-> "idle", rq |-> 0]

\* A mapped device without requests.
DmIdle ==
    /\ q_mq_ops = FALSE /\ all_blk_mq = FALSE
    /\ pending = [d \in Dirs |-> 0]
    /\ q_stopped = FALSE
    /\ queue_lock = "none"
    /\ reqs = <<>>
    /\ fn = NoFn

\* curr->id = i
SpanIds == 0 .. NSpanEntries - 1
SpanPorts == 1 .. NSpanPorts
\* The net devices a mirror may point to; the last is one that no entry
\* type can handle.
ToDevs == 1 .. NToDevs + 1
SpanTypes == {MLXSW_SP_SPAN_EGRESS, MLXSW_SP_SPAN_INGRESS}
\* The values of port->dev->mtu.
Mtus == {1500}

\* struct mlxsw_sp_span_parms: the destination port and the rest (ttl,
\* addresses), as one number.
NoParms == [dest_port |-> NULL, v |-> 0]
\* What the routing and neighbour tables give for a gretap device: nothing
\* that can be offloaded, or a port of this instance with one of two sets
\* of addresses.
GreParms ==
    { NoParms, [dest_port |-> 1, v |-> 0], [dest_port |-> 1, v |-> 1] }

\* struct mlxsw_sp_span_entry after mlxsw_sp_span_init.
SpanEntry(i) ==
    [id |-> i, ref_count |-> 0, to_dev |-> NULL, ops |-> "none",
     parms |-> NoParms, bound_ports_list |-> <<>>]

\* struct mlxsw_sp_span_inspected_port
InspectedPort(port, type, bind) == [local_port |-> port, type |-> type, bound |-> bind]

\* The port analyzer of an entry in the hardware: whether it is configured,
\* and history: whether a configure was issued for a configured analyzer or
\* a deconfigure for one that is not.
NoAnalyzer == [cfg |-> FALSE, twice |-> FALSE, stray |-> FALSE]

\* No call of the SPAN module was made.  History of the last call: what it
\* was, what it returned, and for a mirror_add whether it asked to bind a
\* (port, direction) that was bound.
NoSpanCall == [op |-> "none", ret |-> 0, conflict |-> FALSE]

\* No SPAN state.
SpanIdle ==
    /\ span_entries = <<>> /\ sbib = <<>> /\ mpar = <<>> /\ mpat = <<>>
    /\ span_ret = <<>>

\* No module state.
ModIdle == modst = <<>> /\ registry = <<>> /\ modlog = <<>>

ExtIdle == DmIdle /\ SpanIdle /\ ModIdle

\* No call of nft_do_chain has returned on this cpu.
NoTally == [calls |-> 0, pkts |-> 0, bytes |-> 0]

\* Lines 122-133: the locals of a call of nft_do_chain that has not started,
\* and the counters of its cpu.
InitLocals(d) ==
    /\ pc = "idle"
    /\ prev = NoPrev(d)
    /\ pkt = NoPkt
    /\ chain = 0 /\ rule = HEAD /\ rulenum = 0
    /\ regs = [verdict |-> Verdict(NFT_CONTINUE, NULL), data |-> d]
    /\ stackptr = 0
    /\ jumpstack = [i \in 0 .. NFT_JUMP_STACK_SIZE - 1 |-> NoFrame]
    /\ gencursor = 0
    /\ info = NoInfo
    /\ retval = NF_DROP
    /\ tracelog = <<>> /\ evlog = <<>> /\ nevals = 0 /\ callers = <<>>
    /\ lost = FALSE /\ warned = FALSE
    /\ stats = [pkts |-> 0, bytes |-> 0]
    /\ tally = NoTally
    /\ ExtIdle

\* One cpu runs nft_do_chain.
InitTraversalWith(d) == InitLocals(d) /\ percpu = <<>>

InitTraversal == InitTraversalWith(ZeroData)

SomeInactive(rs) == \E c \in Chains : \E i \in 1 .. Len(rs[c]) : rs[c][i].genmask # 0

Init ==
    /\ rules \in RuleSets
    /\ policy \in Policies
    /\ chain_net = 1
    \* generation 1 only where it differs from generation 0 for some rule
    /\ nft_gencursor \in { [n \in Nets |-> IF n = 1 THEN g ELSE 0] :
                           g \in IF SomeInactive(rules) THEN Gens ELSE {0} }
    /\ nft_trace_enabled \in BOOLEAN
    /\ txn = "none"
    /\ InitTraversal

(***************************************************************************)
(* nft_do_chain.                                                           *)
(***************************************************************************)
\* Lines 122-144: entry, the namespace guard, trace init, do_chain.
nft_do_chain_entry(p) ==
    /\ pc = "idle"
    /\ pkt' = p
    /\ gencursor' = nft_gencursor[p.net]
    /\ IF ~net_eq(p.net, chain_net)
       THEN /\ pc' = "done"
            /\ retval' = NF_ACCEPT
            /\ UNCHANGED <<info, chain, rule, rulenum, regs>>
       ELSE /\ info' = (IF nft_trace_enabled
                        THEN nft_trace_init([info EXCEPT !.trace = FALSE])
                        ELSE [info EXCEPT !.trace = FALSE])
            /\ chain' = basechain
            /\ rulenum' = 0
            /\ rule' = HEAD
            /\ regs' = [regs EXCEPT !.verdict.code = NFT_CONTINUE]
            /\ pc' = "loop"
            /\ UNCHANGED retval
    /\ UNCHANGED <<cfgvars, stats, stackptr, jumpstack, tracelog, evlog, nevals,
                   callers, lost, warned>>

\* An end of list that wraps around to the first rule of the chain.
nft_rule_end_wrap ==
    /\ pc = "loop"
    /\ ~HasNext(chain, rule)
    /\ rule' = HEAD
    /\ UNCHANGED <<cfgvars, stats, pc, pkt, chain, rulenum, regs, stackptr, jumpstack,
                   gencursor, info, retval, tracelog, evlog, nevals, callers,
                   lost, warned>>

\* An end of list that waits until the control plane holds no transaction.
nft_rule_end_locked ==
    /\ txn \notin {"open", "committed"}
    /\ pc = "loop"
    /\ ~HasNext(chain, rule)
    /\ rule' = HEAD
    /\ pc' = "verdict"
    /\ UNCHANGED <<cfgvars, stats, pkt, chain, rulenum, regs, stackptr, jumpstack,
                   gencursor, info, retval, tracelog, evlog, nevals, callers,
                   lost, warned>>

\* Line 147: the list of the chain is exhausted.
nft_rule_end ==
    /\ pc = "loop"
    /\ ~HasNext(chain, rule)
    /\ rule' = HEAD
    /\ pc' = "verdict"
    /\ UNCHANGED <<cfgvars, stats, pkt, chain, rulenum, regs, stackptr, jumpstack,
                   gencursor, info, retval, tracelog, evlog, nevals, callers,
                   lost, warned>>

\* A skip that counts the rule it passes over.
nft_rule_skip_counted ==
    /\ pc = "loop"
    /\ HasNext(chain, rule)
    /\ RuleInactive(NextRule(chain, rule), gencursor)
    /\ rule' = NextRule(chain, rule).handle
    /\ rulenum' = rulenum + 1
    /\ UNCHANGED <<cfgvars, stats, pc, pkt, chain, regs, stackptr, jumpstack,
                   gencursor, info, retval, tracelog, evlog, nevals, callers,
                   lost, warned>>

\* Lines 149-151: the next rule is not active in the traversal's generation.
nft_rule_skip ==
    /\ pc = "loop"
    /\ HasNext(chain, rule)
    /\ RuleInactive(NextRule(chain, rule), gencursor)
    /\ rule' = NextRule(chain, rule).handle
    /\ UNCHANGED <<cfgvars, stats, pc, pkt, chain, rulenum, regs, stackptr, jumpstack,
                   gencursor, info, retval, tracelog, evlog, nevals, callers,
                   lost, warned>>

\* Lines 153-176: the next rule is active: its expressions, then the switch
\* on the verdict they leave.
nft_rule_eval ==
    /\ pc = "loop"
    /\ HasNext(chain, rule)
    /\ ~RuleInactive(NextRule(chain, rule), gencursor)
    /\ LET r == NextRule(chain, rule)
           run == EvalRun(r.exprs, 1, [regs |-> regs, seen |-> <<>>])
           regs1 == run.regs
           code == regs1.verdict.code
           t == IF code = NFT_CONTINUE
                THEN nft_trace_packet(info, chain, r.handle, rulenum + 1, NFT_TRACETYPE_RULE)
                ELSE [info |-> info, emit |-> <<>>]
       IN  /\ rule' = r.handle
           /\ rulenum' = rulenum + 1
           /\ regs' = (IF code = NFT_BREAK
                       THEN [regs1 EXCEPT !.verdict.code = NFT_CONTINUE]
                       ELSE regs1)
           /\ pc' = (IF code \in {NFT_BREAK, NFT_CONTINUE} THEN "loop" ELSE "verdict")
           /\ Emit(t)
           /\ evlog' = Record(evlog, [chain |-> chain, rule |-> r.handle,
                                     genmask |-> r.genmask, code |-> code,
                                     exprs |-> run.seen])
           /\ nevals' = Count(nevals)
           /\ lost' = (lost \/ Over(evlog, <<r>>) \/ Over(tracelog, t.emit))
    /\ UNCHANGED <<cfgvars, stats, pkt, chain, stackptr, jumpstack, gencursor,
                   retval, callers, warned>>

\* A return of the masked verdict.
nft_verdict_terminal_masked ==
    /\ pc = "verdict"
    /\ IsTerminal(regs.verdict.code)
    /\ LET t == nft_trace_packet(info, chain, rule, rulenum, NFT_TRACETYPE_RULE)
       IN  Emit(t) /\ lost' = (lost \/ Over(tracelog, t.emit))
    /\ retval' = VerdictMask(regs.verdict.code)
    /\ pc' = "done"
    /\ UNCHANGED <<cfgvars, stats, pkt, chain, rule, rulenum, regs, stackptr,
                   jumpstack, gencursor, evlog, nevals, callers, warned>>

\* Lines 178-185: a terminal verdict is traced and returned as it is.
nft_verdict_terminal ==
    /\ pc = "verdict"
    /\ IsTerminal(regs.verdict.code)
    /\ LET t == nft_trace_packet(info, chain, rule, rulenum, NFT_TRACETYPE_RULE)
       IN  Emit(t) /\ lost' = (lost \/ Over(tracelog, t.emit))
    /\ retval' = regs.verdict.code
    /\ pc' = "done"
    /\ UNCHANGED <<cfgvars, stats, pkt, chain, rule, rulenum, regs, stackptr,
                   jumpstack, gencursor, evlog, nevals, callers, warned>>

\* An NFT_JUMP that reads the generation of the namespace again at do_chain.
nft_verdict_jump_resample ==
    /\ pc = "verdict"
    /\ ~IsTerminal(regs.verdict.code)
    /\ regs.verdict.code = NFT_JUMP
    /\ IF JumpStackFull(stackptr)
       THEN /\ pc' = "BUG"
            /\ UNCHANGED <<chain, rule, rulenum, regs, stackptr, jumpstack, info,
                           tracelog, lost, callers>>
       ELSE /\ jumpstack' = [jumpstack EXCEPT ![stackptr] = Frame(chain, rule, rulenum)]
            /\ stackptr' = stackptr + 1
            /\ LET t == nft_trace_packet(info, chain, rule, rulenum, NFT_TRACETYPE_RULE)
               IN  Emit(t) /\ lost' = (lost \/ Over(tracelog, t.emit))
            /\ chain' = regs.verdict.chain
            /\ rulenum' = 0
            /\ rule' = HEAD
            /\ regs' = [regs EXCEPT !.verdict.code = NFT_CONTINUE]
            /\ pc' = "loop"
            /\ callers' = Append(callers, [chain |-> chain, rule |-> rule])
    /\ gencursor' = nft_gencursor[pkt.net]
    /\ UNCHANGED <<cfgvars, stats, pkt, retval, evlog, nevals, warned>>

\* Lines 188-200: NFT_JUMP pushes a frame, or hits BUG_ON, and goes on as
\* NFT_GOTO.
nft_verdict_jump ==
    /\ pc = "verdict"
    /\ ~IsTerminal(regs.verdict.code)
    /\ regs.verdict.code = NFT_JUMP
    /\ IF JumpStackFull(stackptr)
       THEN /\ pc' = "BUG"
            /\ UNCHANGED <<chain, rule, rulenum, regs, stackptr, jumpstack, info,
                           tracelog, lost, callers>>
       ELSE /\ jumpstack' = [jumpstack EXCEPT ![stackptr] = Frame(chain, rule, rulenum)]
            /\ stackptr' = stackptr + 1
            /\ LET t == nft_trace_packet(info, chain, rule, rulenum, NFT_TRACETYPE_RULE)
               IN  Emit(t) /\ lost' = (lost \/ Over(tracelog, t.emit))
            /\ chain' = regs.verdict.chain
            /\ rulenum' = 0
            /\ rule' = HEAD
            /\ regs' = [regs EXCEPT !.verdict.code = NFT_CONTINUE]
            /\ pc' = "loop"
            /\ callers' = Append(callers, [chain |-> chain, rule |-> rule])
    /\ UNCHANGED <<cfgvars, stats, pkt, gencursor, retval, evlog, nevals, warned>>

\* An NFT_GOTO that pushes a frame as NFT_JUMP does.
nft_verdict_goto_push ==
    /\ pc = "verdict"
    /\ ~IsTerminal(regs.verdict.code)
    /\ regs.verdict.code = NFT_GOTO
    /\ ~JumpStackFull(stackptr)
    /\ jumpstack' = [jumpstack EXCEPT ![stackptr] = Frame(chain, rule, rulenum)]
    /\ stackptr' = stackptr + 1
    /\ LET t == nft_trace_packet(info, chain, rule, rulenum, NFT_TRACETYPE_RULE)
       IN  Emit(t) /\ lost' = (lost \/ Over(tracelog, t.emit))
    /\ chain' = regs.verdict.chain
    /\ rulenum' = 0
    /\ rule' = HEAD
    /\ regs' = [regs EXCEPT !.verdict.code = NFT_CONTINUE]
    /\ pc' = "loop"
    /\ UNCHANGED <<cfgvars, stats, pkt, gencursor, retval, evlog, nevals, callers,
                   warned>>

\* An NFT_GOTO that forgets the frames on the stack.
nft_verdict_goto_clear ==
    /\ pc = "verdict"
    /\ ~IsTerminal(regs.verdict.code)
    /\ regs.verdict.code = NFT_GOTO
    /\ LET t == nft_trace_packet(info, chain, rule, rulenum, NFT_TRACETYPE_RULE)
       IN  Emit(t) /\ lost' = (lost \/ Over(tracelog, t.emit))
    /\ chain' = regs.verdict.chain
    /\ rulenum' = 0
    /\ rule' = HEAD
    /\ regs' = [regs EXCEPT !.verdict.code = NFT_CONTINUE]
    /\ pc' = "loop"
    /\ stackptr' = 0
    /\ callers' = <<>>
    /\ UNCHANGED <<cfgvars, stats, pkt, jumpstack, gencursor, retval,
                   evlog, nevals, warned>>

\* Lines 195-200: NFT_GOTO goes to the target chain without a frame.
nft_verdict_goto ==
    /\ pc = "verdict"
    /\ ~IsTerminal(regs.verdict.code)
    /\ regs.verdict.code = NFT_GOTO
    /\ LET t == nft_trace_packet(info, chain, rule, rulenum, NFT_TRACETYPE_RULE)
       IN  Emit(t) /\ lost' = (lost \/ Over(tracelog, t.emit))
    /\ chain' = regs.verdict.chain
    /\ rulenum' = 0
    /\ rule' = HEAD
    /\ regs' = [regs EXCEPT !.verdict.code = NFT_CONTINUE]
    /\ pc' = "loop"
    /\ UNCHANGED <<cfgvars, stats, pkt, stackptr, jumpstack, gencursor, retval,
                   evlog, nevals, callers, warned>>

\* A pop that restarts the calling chain at its first rule.
nft_return_pop_restart ==
    /\ pc = "verdict"
    /\ FallsOut(regs.verdict.code)
    /\ stackptr > 0
    /\ stackptr' = stackptr - 1
    /\ chain' = jumpstack[stackptr - 1].chain
    /\ rule' = HEAD
    /\ rulenum' = 0
    /\ regs' = [regs EXCEPT !.verdict.code = NFT_CONTINUE]
    /\ pc' = "loop"
    /\ callers' = (IF callers = <<>> THEN callers ELSE SubSeq(callers, 1, Len(callers) - 1))
    /\ UNCHANGED <<cfgvars, stats, pkt, jumpstack, gencursor, retval, evlog, nevals,
                   info, tracelog, lost, warned>>

\* A pop that goes back into the loop below the reset of line 146.
nft_return_pop_noreset ==
    /\ pc = "verdict"
    /\ FallsOut(regs.verdict.code)
    /\ stackptr > 0
    /\ LET sw == ReturnSwitch(regs.verdict.code, rulenum)
           t == IF sw.traced
                THEN nft_trace_packet(info, chain, rule, sw.rulenum, NFT_TRACETYPE_RETURN)
                ELSE [info |-> info, emit |-> <<>>]
       IN  /\ Emit(t) /\ lost' = (lost \/ Over(tracelog, t.emit))
           /\ warned' = (warned \/ sw.warn)
    /\ stackptr' = stackptr - 1
    /\ chain' = jumpstack[stackptr - 1].chain
    /\ rule' = jumpstack[stackptr - 1].rule
    /\ rulenum' = jumpstack[stackptr - 1].rulenum
    /\ regs' = regs
    /\ pc' = "loop"
    /\ callers' = (IF callers = <<>> THEN callers ELSE SubSeq(callers, 1, Len(callers) - 1))
    /\ UNCHANGED <<cfgvars, stats, pkt, jumpstack, gencursor, retval, evlog, nevals>>

\* Lines 201-218: NFT_CONTINUE (end of the list), NFT_RETURN or an unknown
\* verdict, with a frame on the stack: back to the chain of the frame.
nft_return_pop ==
    /\ pc = "verdict"
    /\ FallsOut(regs.verdict.code)
    /\ stackptr > 0
    /\ LET sw == ReturnSwitch(regs.verdict.code, rulenum)
           t == IF sw.traced
                THEN nft_trace_packet(info, chain, rule, sw.rulenum, NFT_TRACETYPE_RETURN)
                ELSE [info |-> info, emit |-> <<>>]
       IN  /\ Emit(t) /\ lost' = (lost \/ Over(tracelog, t.emit))
           /\ warned' = (warned \/ sw.warn)
    /\ stackptr' = stackptr - 1
    /\ chain' = jumpstack[stackptr - 1].chain
    /\ rule' = jumpstack[stackptr - 1].rule
    /\ rulenum' = jumpstack[stackptr - 1].rulenum
    /\ regs' = [regs EXCEPT !.verdict.code = NFT_CONTINUE]
    /\ pc' = "loop"
    /\ callers' = (IF callers = <<>> THEN callers ELSE SubSeq(callers, 1, Len(callers) - 1))
    /\ UNCHANGED <<cfgvars, stats, pkt, jumpstack, gencursor, retval, evlog, nevals>>

\* A statistics update that adds one to the byte counter, whatever the
\* length of the packet.
nft_stats_update_unit(s, len) == [pkts |-> s.pkts + 1, bytes |-> s.bytes + 1]

\* Lines 223-229: stats->pkts++; stats->bytes += pkt->skb->len; on this
\* cpu's counters of the base chain.
nft_stats_update(s, len) == [pkts |-> s.pkts + 1, bytes |-> s.bytes + len]

\* An end that names the current chain in the policy event.
nft_return_policy_current ==
    /\ pc = "verdict"
    /\ FallsOut(regs.verdict.code)
    /\ ~(stackptr > 0)
    /\ LET sw == ReturnSwitch(regs.verdict.code, rulenum)
           t1 == IF sw.traced
                 THEN nft_trace_packet(info, chain, rule, sw.rulenum, NFT_TRACETYPE_RETURN)
                 ELSE [info |-> info, emit |-> <<>>]
           t2 == nft_trace_packet(t1.info, chain, NULL, -1, NFT_TRACETYPE_POLICY)
           log1 == IF t1.emit = <<>> THEN tracelog ELSE Record(tracelog, t1.emit[1])
       IN  /\ info' = t2.info
           /\ tracelog' = (IF t2.emit = <<>> THEN log1 ELSE Record(log1, t2.emit[1]))
           /\ lost' = (lost \/ Over(tracelog, t1.emit) \/ Over(log1, t2.emit))
           /\ rulenum' = sw.rulenum
           /\ warned' = (warned \/ sw.warn)
    /\ stats' = nft_stats_update(stats, pkt.len)
    /\ retval' = BasePolicy
    /\ pc' = "done"
    /\ callers' = (IF callers = <<>> THEN callers ELSE SubSeq(callers, 1, Len(callers) - 1))
    /\ UNCHANGED <<cfgvars, pkt, chain, rule, regs, stackptr, jumpstack, gencursor,
                   evlog, nevals>>

\* Lines 201-231: the same with an empty stack: the policy of the base chain,
\* counted in its statistics.
nft_return_policy ==
    /\ pc = "verdict"
    /\ FallsOut(regs.verdict.code)
    /\ ~(stackptr > 0)
    /\ LET sw == ReturnSwitch(regs.verdict.code, rulenum)
           t1 == IF sw.traced
                 THEN nft_trace_packet(info, chain, rule, sw.rulenum, NFT_TRACETYPE_RETURN)
                 ELSE [info |-> info, emit |-> <<>>]
           t2 == nft_trace_packet(t1.info, basechain, NULL, -1, NFT_TRACETYPE_POLICY)
           log1 == IF t1.emit = <<>> THEN tracelog ELSE Record(tracelog, t1.emit[1])
       IN  /\ info' = t2.info
           /\ tracelog' = (IF t2.emit = <<>> THEN log1 ELSE Record(log1, t2.emit[1]))
           /\ lost' = (lost \/ Over(tracelog, t1.emit) \/ Over(log1, t2.emit))
           /\ rulenum' = sw.rulenum
           /\ warned' = (warned \/ sw.warn)
    /\ stats' = nft_stats_update(stats, pkt.len)
    /\ retval' = BasePolicy
    /\ pc' = "done"
    /\ callers' = (IF callers = <<>> THEN callers ELSE SubSeq(callers, 1, Len(callers) - 1))
    /\ UNCHANGED <<cfgvars, pkt, chain, rule, regs, stackptr, jumpstack, gencursor,
                   evlog, nevals>>

\* The packets of the main specification: of every namespace, traced or not,
\* of the largest length.
FlowPackets == { p \in Packets : p.len = MaxPktLen /\ \A i \in 1 .. p.len : p.bytes[i] = 6 }

Next ==
    \/ \E p \in FlowPackets : nft_do_chain_entry(p)
    \/ nft_rule_end
    \/ nft_rule_skip
    \/ nft_rule_eval
    \/ nft_verdict_terminal
    \/ nft_verdict_jump
    \/ nft_verdict_goto
    \/ nft_return_pop
    \/ nft_return_policy

Spec == Init /\ [][Next]_vars

\* The evaluator runs to completion on the core that delivered the packet:
\* it does not block, sleep or wait for a lock. Whether it ends does not
\* depend on the policy nor on tracing: they are fixed here.
InitFair == Init /\ policy = NF_ACCEPT /\ ~nft_trace_enabled

FairSpec == InitFair /\ [][Next]_vars /\ WF_vars(Next)

(***************************************************************************)
(* Deep rule sets: the base chain holds up to MaxWidth rules that all jump *)
(* (or all go) to the second chain, which holds up to MaxWidth rules that  *)
(* match and continue; after them the base chain may hold one more rule,   *)
(* a drop that is not active or an accept.                                 *)
(***************************************************************************)
MaxWidth == 5

Rungs(c, n, code, target) == [i \in 1 .. n |-> VerdictRule(10 * c + i, 0, code, target)]

LadderTails == { <<>>, <<VerdictRule(10 * basechain + MaxWidth + 1, 1, NF_DROP, NULL)>>,
                 <<VerdictRule(10 * basechain + MaxWidth + 1, 0, NF_ACCEPT, NULL)>> }

Ladder(kind, a, b, tail) ==
    [c \in Chains |-> IF c = basechain THEN Rungs(c, a, kind, 2) \o tail
                      ELSE IF c = 2 THEN Rungs(c, b, NFT_CONTINUE, NULL)
                      ELSE <<>>]

LadderSets == { Ladder(kind, a, b, tail) : kind \in {NFT_JUMP, NFT_GOTO},
                a \in 1 .. MaxWidth, b \in 1 .. MaxWidth, tail \in LadderTails }

InitDeep ==
    /\ rules \in LadderSets
    /\ policy \in Policies
    /\ chain_net = 1
    /\ nft_gencursor = [n \in Nets |-> 0]
    /\ nft_trace_enabled \in BOOLEAN
    /\ txn = "none"
    /\ InitTraversal

SpecDeep == InitDeep /\ [][Next]_vars

(***************************************************************************)
(* The control plane's transaction, concurrent with the traversal: rules   *)
(* are linked at the tail of a chain with one generation bit set, then the *)
(* generation of the namespace is flipped, and once no traversal runs the  *)
(* rules that the new generation does not see are unlinked.                *)
(***************************************************************************)
MaxNew == 1

\* The rule sets that the transaction starts from: the base chain is an
\* optional first rule followed by a jump or a goto to the second chain;
\* the second chain is one rule; the rules other than the jump are a drop
\* with one generation bit set, left by an earlier transaction, or a rule
\* that continues.
GenKinds == { <<1, NF_DROP, NULL>>, <<2, NF_DROP, NULL>>, <<0, NFT_CONTINUE, NULL>> }

GenRuleSets ==
    LET Empty == [c \in Chains |-> <<>>]
        Firsts == {Empty} \cup { AddRule(Empty, basechain, k) : k \in GenKinds }
    IN  { AddRule(AddRule(rs, basechain, <<0, kind, 2>>), 2, k) :
            rs \in Firsts, kind \in {NFT_JUMP, NFT_GOTO}, k \in GenKinds }

\* A rule is linked with the bit of generation g; MaxNew rules at most on
\* top of the three of the largest initial rule set.
txn_link_rule(c, g) ==
    /\ txn = "open"
    /\ TotalRules(rules) < 3 + MaxNew
    /\ rules' = AddRule(rules, c, <<2 ^ g, NF_DROP, NULL>>)
    /\ UNCHANGED <<policy, chain_net, nft_gencursor, nft_trace_enabled, txn, stats,
                   pc, pkt, chain, rule, rulenum, regs, stackptr, jumpstack,
                   gencursor, info, retval, tracelog, evlog, nevals, callers, lost,
                   warned, prev, percpu, tally, extvars>>

\* The generation of the chain's namespace is flipped, after the links.
txn_flip_epoch ==
    /\ txn = "open"
    /\ nft_gencursor' = [nft_gencursor EXCEPT ![chain_net] = 1 - @]
    /\ txn' = "committed"
    /\ UNCHANGED <<rules, policy, chain_net, nft_trace_enabled, stats,
                   pc, pkt, chain, rule, rulenum, regs, stackptr, jumpstack,
                   gencursor, info, retval, tracelog, evlog, nevals, callers, lost,
                   warned, prev, percpu, tally, extvars>>

\* The rules left of chain c's list l without those the generation g does
\* not see.
RECURSIVE Reclaimed(_, _)
Reclaimed(l, g) ==
    IF l = <<>> THEN <<>>
    ELSE IF GenmaskBit(Head(l).genmask, g) THEN Reclaimed(Tail(l), g)
    ELSE <<Head(l)>> \o Reclaimed(Tail(l), g)

\* With no traversal in progress, the rules of the old generation are
\* reclaimed.
txn_reclaim ==
    /\ txn = "committed"
    /\ pc \in {"idle", "done"}
    /\ rules' = [c \in Chains |-> Reclaimed(rules[c], nft_gencursor[chain_net])]
    /\ txn' = "reclaimed"
    /\ UNCHANGED <<policy, chain_net, nft_gencursor, nft_trace_enabled, stats,
                   pc, pkt, chain, rule, rulenum, regs, stackptr, jumpstack,
                   gencursor, info, retval, tracelog, evlog, nevals, callers, lost,
                   warned, prev, percpu, tally, extvars>>

InitGen ==
    /\ rules \in GenRuleSets
    /\ policy = NF_ACCEPT
    /\ chain_net = 1
    /\ nft_gencursor \in { [n \in Nets |-> IF n = 1 THEN g ELSE 0] : g \in Gens }
    /\ nft_trace_enabled = FALSE
    /\ txn = "open"
    /\ InitTraversal

NextGen ==
    \/ Next
    \/ \E c \in Chains, g \in Gens : txn_link_rule(c, g)
    \/ txn_flip_epoch
    \/ txn_reclaim

SpecGen == InitGen /\ [][NextGen]_vars

(***************************************************************************)
(* Rules of fast compares and fast payload loads: the base chain holds up  *)
(* to MaxExprRules rules, each one of the rules below; the stack holds any *)
(* of three words where data register 1 lies.                              *)
(***************************************************************************)
MaxExprRules == 2

\* 0x106: a word whose low byte is the protocol number of TCP.
GarbageVals == {6, 17, 262}
GarbageData == { [r \in Regs |-> IF r = 1 THEN v ELSE 0] : v \in GarbageVals }

ExprLists ==
    { <<CmpFastExpr(1, 8, 6)>>,
      <<GenericExpr(NF_DROP, NULL)>>,
      <<PayloadFastExpr(NFT_PAYLOAD_NETWORK_HEADER, 0, 1, 1), CmpFastExpr(1, 8, 6)>>,
      <<PayloadFastExpr(NFT_PAYLOAD_TRANSPORT_HEADER, 0, 2, 1),
        CmpFastExpr(1, 16, 6 + 256 * 17)>>,
      <<PayloadFastExpr(NFT_PAYLOAD_NETWORK_HEADER, 1, 1, 2), CmpFastExpr(2, 8, 17)>>,
      <<CmpFastExpr(1, 8, 6), GenericExpr(NF_DROP, NULL)>>,
      <<GenericExpr(NF_ACCEPT, NULL),
        PayloadFastExpr(NFT_PAYLOAD_NETWORK_HEADER, 0, 1, 1)>>,
      <<CmpFastExpr(1, 16, 262)>>,
      <<PayloadFastExpr(NFT_PAYLOAD_NETWORK_HEADER, 0, 1, 1)>> }

ExprRuleSets ==
    { [c \in Chains |->
          IF c = basechain
          THEN [i \in 1 .. Len(l) |-> Rule(10 * c + i, 0, l[i])]
          ELSE <<>>] :
      l \in UNION { [1 .. k -> ExprLists] : k \in 1 .. MaxExprRules } }

\* The packets of the chain's namespace, not traced.
ExprPackets == { p \in Packets : p.net = 1 /\ ~p.nf_trace }

InitExpr ==
    /\ rules \in ExprRuleSets
    /\ policy = NF_ACCEPT
    /\ chain_net = 1
    /\ nft_gencursor = [n \in Nets |-> 0]
    /\ nft_trace_enabled = FALSE
    /\ txn = "none"
    /\ \E d \in GarbageData : InitTraversalWith(d)

\* The steps of a traversal of a chain that neither jumps nor holds
\* inactive rules.
NextExpr ==
    \/ \E p \in ExprPackets : nft_do_chain_entry(p)
    \/ nft_rule_end
    \/ nft_rule_eval
    \/ nft_verdict_terminal
    \/ nft_return_policy

SpecExpr == InitExpr /\ [][NextExpr]_vars

(***************************************************************************)
(* nft_do_chain on NCpus cpus at once, each with its packet, its locals    *)
(* and its counters, while the control plane runs a transaction.  The      *)
(* variables of the traversal are those of the cpu that takes the next     *)
(* step; percpu holds the others.                                          *)
(***************************************************************************)
NCpus == 2

\* The locals of the call on this cpu and the counters of this cpu.
LocalCtx ==
    [pc |-> pc, pkt |-> pkt, chain |-> chain, rule |-> rule, rulenum |-> rulenum,
     regs |-> regs, stackptr |-> stackptr, jumpstack |-> jumpstack,
     gencursor |-> gencursor, info |-> info, retval |-> retval,
     tracelog |-> tracelog, evlog |-> evlog, nevals |-> nevals,
     callers |-> callers, lost |-> lost, warned |-> warned, stats |-> stats,
     tally |-> tally]

\* A call that has not started.
IdleCtx ==
    [pc |-> "idle", pkt |-> NoPkt, chain |-> 0, rule |-> HEAD, rulenum |-> 0,
     regs |-> [verdict |-> Verdict(NFT_CONTINUE, NULL), data |-> ZeroData],
     stackptr |-> 0, jumpstack |-> [i \in 0 .. NFT_JUMP_STACK_SIZE - 1 |-> NoFrame],
     gencursor |-> 0, info |-> NoInfo, retval |-> NF_DROP,
     tracelog |-> <<>>, evlog |-> <<>>, nevals |-> 0,
     callers |-> <<>>, lost |-> FALSE, warned |-> FALSE,
     stats |-> [pkts |-> 0, bytes |-> 0], tally |-> NoTally]

\* The initial rule sets: a rule that continues, a jump or a goto to the
\* second chain, one rule in the second chain.
ParRuleSets ==
    { rs \in GenRuleSets : /\ TotalRules(rs) = 3
                           /\ rs[basechain][1].exprs[1].code = NFT_CONTINUE
                           /\ rs[basechain][1].genmask = 0 }

ParPackets == { p \in FlowPackets : p.net = 1 /\ ~p.nf_trace }

InitPar ==
    /\ rules \in ParRuleSets
    /\ policy = NF_ACCEPT
    /\ chain_net = 1
    /\ nft_gencursor = [n \in Nets |-> 0]
    /\ nft_trace_enabled = FALSE
    /\ txn \in {"none", "open"}
    /\ InitLocals(ZeroData)
    /\ percpu = [i \in 1 .. NCpus - 1 |-> IdleCtx]

\* A switch between cpus that count in one shared nft_stats.
switch_cpu_shared(i) ==
    /\ percpu' = [percpu EXCEPT ![i] = LocalCtx]
    /\ pc' = percpu[i].pc /\ pkt' = percpu[i].pkt
    /\ chain' = percpu[i].chain /\ rule' = percpu[i].rule
    /\ rulenum' = percpu[i].rulenum /\ regs' = percpu[i].regs
    /\ stackptr' = percpu[i].stackptr /\ jumpstack' = percpu[i].jumpstack
    /\ gencursor' = percpu[i].gencursor /\ info' = percpu[i].info
    /\ retval' = percpu[i].retval /\ tracelog' = percpu[i].tracelog
    /\ evlog' = percpu[i].evlog /\ nevals' = percpu[i].nevals
    /\ callers' = percpu[i].callers /\ lost' = percpu[i].lost
    /\ warned' = percpu[i].warned /\ stats' = stats
    /\ tally' = percpu[i].tally
    /\ UNCHANGED <<rules, policy, chain_net, nft_gencursor, nft_trace_enabled, txn,
                   prev, extvars>>

\* The next step is taken by the call on cpu i.
switch_cpu(i) ==
    /\ percpu' = [percpu EXCEPT ![i] = LocalCtx]
    /\ pc' = percpu[i].pc /\ pkt' = percpu[i].pkt
    /\ chain' = percpu[i].chain /\ rule' = percpu[i].rule
    /\ rulenum' = percpu[i].rulenum /\ regs' = percpu[i].regs
    /\ stackptr' = percpu[i].stackptr /\ jumpstack' = percpu[i].jumpstack
    /\ gencursor' = percpu[i].gencursor /\ info' = percpu[i].info
    /\ retval' = percpu[i].retval /\ tracelog' = percpu[i].tracelog
    /\ evlog' = percpu[i].evlog /\ nevals' = percpu[i].nevals
    /\ callers' = percpu[i].callers /\ lost' = percpu[i].lost
    /\ warned' = percpu[i].warned /\ stats' = percpu[i].stats
    /\ tally' = percpu[i].tally
    /\ UNCHANGED <<rules, policy, chain_net, nft_gencursor, nft_trace_enabled, txn,
                   prev, extvars>>

\* No call on another cpu is inside nft_do_chain.
OthersQuiescent == \A i \in DOMAIN percpu : percpu[i].pc \in {"idle", "done"}

\* A step of nft_do_chain on this cpu.
NextTraversal ==
    \/ nft_rule_end
    \/ nft_rule_skip
    \/ nft_rule_eval
    \/ nft_verdict_terminal
    \/ nft_verdict_jump
    \/ nft_verdict_goto
    \/ nft_return_pop
    \/ nft_return_policy

\* The steps of the cpus and of the control plane, which links its rules at
\* the tail of the second chain.
NextPar ==
    \/ \E p \in ParPackets : nft_do_chain_entry(p)
    \/ NextTraversal
    \/ \E i \in 1 .. NCpus - 1 : switch_cpu(i)
    \/ \E g \in Gens : txn_link_rule(2, g)
    \/ txn_flip_epoch
    \/ OthersQuiescent /\ txn_reclaim

SpecPar == InitPar /\ [][NextPar]_vars

(***************************************************************************)
(* nft_do_chain called twice for one packet: the second call starts on a   *)
(* fresh stack frame, after the static key was or was not switched; the    *)
(* result of the first call is kept in prev.                               *)
(***************************************************************************)
AgainLists ==
    { <<CmpFastExpr(1, 8, 6), GenericExpr(NF_DROP, NULL)>>,
      <<PayloadFastExpr(NFT_PAYLOAD_NETWORK_HEADER, 0, 1, 1), CmpFastExpr(1, 8, 6),
        GenericExpr(NF_DROP, NULL)>>,
      <<GenericExpr(NFT_CONTINUE, NULL)>>,
      <<GenericExpr(NFT_BREAK, NULL)>>,
      <<GenericExpr(NFT_JUMP, 2)>> }

\* The base chain holds up to MaxExprRules of the rules above, chain 2 one
\* rule that runs to its end.
AgainRuleSets ==
    { [c \in Chains |->
          IF c = basechain
          THEN [i \in 1 .. Len(l) |-> Rule(10 * c + i, 0, l[i])]
          ELSE IF c = 2
          THEN <<Rule(10 * c + 1, 0, <<GenericExpr(NFT_CONTINUE, NULL)>>)>>
          ELSE <<>>] :
      l \in UNION { [1 .. k -> AgainLists] : k \in 1 .. MaxExprRules } }

\* Packets of the chain's namespace, long enough for the loads, marked for
\* tracing or not.
AgainPackets ==
    { p \in Packets : /\ p.net = 1 /\ p.len = MaxPktLen
                      /\ \A i \in 2 .. p.len : p.bytes[i] = 6 }

InitAgain ==
    /\ rules \in AgainRuleSets
    /\ policy = NF_ACCEPT
    /\ chain_net = 1
    /\ nft_gencursor = [n \in Nets |-> 0]
    /\ nft_trace_enabled \in BOOLEAN
    /\ txn = "none"
    /\ \E d \in GarbageData : InitTraversalWith(d)

\* Lines 119-133: nft_do_chain is entered a second time; its locals are
\* those of a new call, regs is not initialized.
nft_do_chain_again ==
    /\ pc = "done"
    /\ ~prev.ran
    /\ \E d \in GarbageData, t \in BOOLEAN :
           /\ prev' = [ran |-> TRUE, retval |-> retval, tracelog |-> tracelog,
                       trace |-> nft_trace_enabled, data |-> prev.now, now |-> d]
           /\ nft_trace_enabled' = t
           /\ regs' = [verdict |-> Verdict(NFT_CONTINUE, NULL), data |-> d]
    /\ pc' = "idle"
    /\ chain' = 0 /\ rule' = HEAD /\ rulenum' = 0
    /\ stackptr' = 0
    /\ jumpstack' = [i \in 0 .. NFT_JUMP_STACK_SIZE - 1 |-> NoFrame]
    /\ gencursor' = 0
    /\ info' = NoInfo
    /\ retval' = NF_DROP
    /\ tracelog' = <<>> /\ evlog' = <<>> /\ nevals' = 0 /\ callers' = <<>>
    /\ lost' = FALSE /\ warned' = FALSE
    /\ UNCHANGED <<rules, policy, chain_net, nft_gencursor, txn, stats, pkt, percpu,
                   tally, extvars>>

NextAgain ==
    \/ \E p \in AgainPackets : (prev.ran => p = pkt) /\ nft_do_chain_entry(p)
    \/ nft_rule_end
    \/ nft_rule_eval
    \/ nft_verdict_terminal
    \/ nft_verdict_jump
    \/ nft_return_pop
    \/ nft_return_policy
    \/ nft_do_chain_again

SpecAgain == InitAgain /\ [][NextAgain]_vars

(***************************************************************************)
(* Nested chains: the base chain jumps or goes to a second chain, which    *)
(* may jump or go to a third; every chain holds up to MaxNest rules.  The  *)
(* packet is traced.                                                       *)
(***************************************************************************)
MaxNest == 2

\* The chains: one more than those of the main specification.
NestChains == 1 .. NChains + 1

\* The kinds of rules of the base chain, of the second chain and the lists
\* of the last chain: <<genmask, code, target>>.
NestBaseKinds == { <<0, NFT_BREAK, NULL>>, <<0, NFT_CONTINUE, NULL>>,
                   <<1, NF_DROP, NULL>>,
                   <<0, NFT_JUMP, 2>>, <<0, NFT_GOTO, 2>> }
NestMidKinds == { <<0, NFT_CONTINUE, NULL>>, <<0, NFT_RETURN, NULL>>,
                  <<0, NF_QUEUE_NR1, NULL>>,
                  <<0, NFT_JUMP, NChains + 1>>, <<0, NFT_GOTO, NChains + 1>> }
NestLastLists == { <<>>, << <<0, NFT_RETURN, NULL>> >>,
                   << <<1, NF_DROP, NULL>>, <<0, NFT_CONTINUE, NULL>> >>,
                   << <<0, NFT_BREAK, NULL>>, <<0, NFT_CONTINUE, NULL>> >> }

\* The rules of chain c made of the kinds of the list l.
NestRules(c, l) == [i \in 1 .. Len(l) |-> VerdictRule(10 * c + i, l[i][1], l[i][2], l[i][3])]

NestLists(kinds) == UNION { [1 .. k -> kinds] : k \in 1 .. MaxNest }

\* The base chain and the second chain hold MaxNest + 2 rules at most
\* between them.
NestRuleSets ==
    { rs \in { [c \in NestChains |->
                   IF c = basechain THEN NestRules(c, a)
                   ELSE IF c = 2 THEN NestRules(c, b)
                   ELSE IF c = NChains + 1 THEN NestRules(c, l)
                   ELSE <<>>] :
               a \in NestLists(NestBaseKinds), b \in NestLists(NestMidKinds),
               l \in NestLastLists } :
      Len(rs[basechain]) + Len(rs[2]) <= MaxNest + 2 }

\* The traced packets of the chain's namespace.
NestPackets == { p \in FlowPackets : p.net = 1 /\ p.nf_trace }

InitNest ==
    /\ rules \in NestRuleSets
    /\ policy = NF_DROP
    /\ chain_net = 1
    /\ nft_gencursor = [n \in Nets |-> 0]
    /\ nft_trace_enabled = TRUE
    /\ txn = "none"
    /\ InitTraversal

NextNest ==
    \/ \E p \in NestPackets : nft_do_chain_entry(p)
    \/ nft_rule_end
    \/ nft_rule_skip
    \/ nft_rule_eval
    \/ nft_verdict_terminal
    \/ nft_verdict_jump
    \/ nft_verdict_goto
    \/ nft_return_pop
    \/ nft_return_policy

SpecNest == InitNest /\ [][NextNest]_vars

(***************************************************************************)
(* Calls of nft_do_chain one after another on each of NCpus cpus, for      *)
(* packets of two lengths, in and out of the chain's namespace, against a  *)
(* base chain that is empty, continues or accepts.  The cpus take MaxCalls *)
(* calls in all.                                                           *)
(***************************************************************************)
MaxCalls == 3

StatsLists == { <<>>, << <<0, NFT_CONTINUE, NULL>> >>, << <<0, NF_ACCEPT, NULL>> >> }

StatsRuleSets ==
    { [c \in Chains |-> IF c = basechain THEN NestRules(c, l) ELSE <<>>] : l \in StatsLists }

\* Packets of the chain's namespace of two lengths, and one of another
\* namespace.
StatsPackets ==
    { p \in Packets : /\ ~p.nf_trace
                      /\ p.len \in {1, MaxPktLen}
                      /\ p.net # 1 => p.net = 2 /\ p.len = 1
                      /\ \A i \in 1 .. p.len : p.bytes[i] = 6 }

\* The calls made on the cpu of a context, the one in progress among them.
CallsOf(ctx) == ctx.tally.calls + (IF ctx.pc = "idle" THEN 0 ELSE 1)

\* The calls made on the cpus from the i-th of the others on.
RECURSIVE OtherCalls(_)
OtherCalls(i) == IF i > Len(percpu) THEN 0 ELSE CallsOf(percpu[i]) + OtherCalls(i + 1)

\* Another call may be made.
CallsLeft == CallsOf(LocalCtx) + OtherCalls(1) < MaxCalls

\* The call of a context returned by the policy of the base chain.
ByPolicy(ctx) ==
    ctx.pc = "done" /\ ctx.pkt.net = chain_net /\ ~IsTerminal(ctx.regs.verdict.code)

\* The history of a cpu with the returned call of the context added.
Tallied(ctx) ==
    [calls |-> ctx.tally.calls + 1,
     pkts |-> ctx.tally.pkts + (IF ByPolicy(ctx) THEN 1 ELSE 0),
     bytes |-> ctx.tally.bytes + (IF ByPolicy(ctx) THEN ctx.pkt.len ELSE 0)]

\* Lines 119-133: nft_do_chain has returned and is called for the next
\* packet of this cpu: new locals, the counters of the cpu as they are.
nft_do_chain_next ==
    /\ pc = "done"
    /\ CallsLeft
    /\ tally' = Tallied(LocalCtx)
    /\ pc' = "idle"
    /\ pkt' = NoPkt
    /\ chain' = 0 /\ rule' = HEAD /\ rulenum' = 0
    /\ regs' = [verdict |-> Verdict(NFT_CONTINUE, NULL), data |-> ZeroData]
    /\ stackptr' = 0
    /\ jumpstack' = [i \in 0 .. NFT_JUMP_STACK_SIZE - 1 |-> NoFrame]
    /\ gencursor' = 0
    /\ info' = NoInfo
    /\ retval' = NF_DROP
    /\ tracelog' = <<>> /\ evlog' = <<>> /\ nevals' = 0 /\ callers' = <<>>
    /\ lost' = FALSE /\ warned' = FALSE
    /\ UNCHANGED <<rules, policy, chain_net, nft_gencursor, nft_trace_enabled, txn,
                   prev, percpu, stats, extvars>>

InitStats ==
    /\ rules \in StatsRuleSets
    /\ policy = NF_ACCEPT
    /\ chain_net = 1
    /\ nft_gencursor = [n \in Nets |-> 0]
    /\ nft_trace_enabled = FALSE
    /\ txn = "none"
    /\ InitLocals(ZeroData)
    /\ percpu = [i \in 1 .. NCpus - 1 |-> IdleCtx]

NextStats ==
    \/ \E p \in StatsPackets : CallsLeft /\ nft_do_chain_entry(p)
    \/ nft_rule_end
    \/ nft_rule_eval
    \/ nft_verdict_terminal
    \/ nft_return_policy
    \/ \E i \in 1 .. NCpus - 1 : switch_cpu(i)
    \/ nft_do_chain_next

SpecStats == InitStats /\ [][NextStats]_vars

(***************************************************************************)
(* The static key nft_trace_enabled is switched on or off by another cpu   *)
(* while nft_do_chain runs: a rule that continues, a jump or a goto to the *)
(* second chain and one rule there, for packets marked for tracing or not. *)
(***************************************************************************)
\* static_key_slow_inc / static_key_slow_dec of nft_trace_enabled, between
\* two steps of a call of nft_do_chain.
nft_trace_toggle ==
    /\ pc \in {"loop", "verdict"}
    /\ nft_trace_enabled' = ~nft_trace_enabled
    /\ UNCHANGED <<rules, policy, chain_net, nft_gencursor, txn, stats,
                   pc, pkt, chain, rule, rulenum, regs, stackptr, jumpstack,
                   gencursor, info, retval, tracelog, evlog, nevals, callers, lost,
                   warned, prev, percpu, tally, extvars>>

TogglePackets == { p \in FlowPackets : p.net = 1 }

InitToggle ==
    /\ rules \in ParRuleSets
    /\ policy = NF_ACCEPT
    /\ chain_net = 1
    /\ nft_gencursor = [n \in Nets |-> 0]
    /\ nft_trace_enabled \in BOOLEAN
    /\ txn = "none"
    /\ InitTraversal

NextToggle ==
    \/ \E p \in TogglePackets : nft_do_chain_entry(p)
    \/ nft_rule_end
    \/ nft_rule_skip
    \/ nft_rule_eval
    \/ nft_verdict_terminal
    \/ nft_verdict_jump
    \/ nft_verdict_goto
    \/ nft_return_pop
    \/ nft_return_policy
    \/ nft_trace_toggle

SpecToggle == InitToggle /\ [][NextToggle]_vars

(***************************************************************************)
(* Request-based dm: the functions of dm-rq.c on one original request.     *)
(* They take and return m, the request and md->pending.                    *)
(***************************************************************************)
\* The variables of nf_tables.
nftvars == <<rules, policy, chain_net, nft_gencursor, nft_trace_enabled, txn, stats,
             pc, pkt, chain, rule, rulenum, regs, stackptr, jumpstack,
             gencursor, info, retval, tracelog, evlog, nevals, callers, lost,
             warned, prev, percpu, tally>>

\* Lines 695-725: dm_start_request.
dm_start_request(m) ==
    [m EXCEPT !.pend[m.rq.dir] = @ + 1, !.rq.starts = @ + 1, !.rq.st = "started"]

\* Lines 203-228: rq_completed.
rq_completed(m) ==
    [m EXCEPT !.pend[m.rq.dir] = @ - 1, !.rq.completions = @ + 1]

\* release_clone_rq of the target or free_old_clone_request: the clone goes
\* back to where it was obtained.
release_clone(m) == [m EXCEPT !.rq.released = @ + 1, !.rq.live = FALSE]

\* Lines 230-253: free_rq_clone; the queue of the clone is a blk-mq queue
\* when all the devices of the table are.
free_rq_clone(m) ==
    LET m1 == IF all_blk_mq \/ ~q_mq_ops THEN release_clone(m) ELSE m
    IN  IF ~q_mq_ops THEN [m1 EXCEPT !.rq.special = FALSE] ELSE m1

\* Lines 289-303: dm_unprep_request.
dm_unprep_request(m) ==
    LET m1 == IF ~q_mq_ops THEN [m EXCEPT !.rq.special = FALSE] ELSE m
    IN  IF m.rq.clone THEN free_rq_clone(m1) ELSE m1

\* A requeue that does not call rq_completed.
dm_requeue_original_request_nocomplete(m, delay_requeue) ==
    LET m1 == dm_unprep_request(m)
    IN  [m1 EXCEPT !.rq.st = "queued", !.rq.requeues = @ + 1]

\* Lines 336-351: dm_requeue_original_request, with or without a delay.
dm_requeue_original_request(m, delay_requeue) ==
    LET m1 == dm_unprep_request(m)
        m2 == [m1 EXCEPT !.rq.st = "queued", !.rq.requeues = @ + 1]
    IN  rq_completed(m2)

\* Lines 260-287: dm_end_request.
dm_end_request(m, error) ==
    LET m1 == free_rq_clone(m)
        m2 == [m1 EXCEPT !.rq.st = "ended"]
    IN  rq_completed(m2)

\* Lines 353-384: dm_done; endio is what the target's rq_end_io returns.
dm_done(m, error, mapped, endio) ==
    LET r == IF m.rq.ti /\ mapped THEN endio ELSE error
    IN  IF r <= 0 THEN dm_end_request(m, r)
        ELSE IF r = DM_ENDIO_INCOMPLETE THEN [m EXCEPT !.rq.st = "target"]
        ELSE IF r = DM_ENDIO_REQUEUE THEN dm_requeue_original_request(m, FALSE)
        ELSE [m EXCEPT !.rq.st = "BUG"]

\* Lines 389-413: dm_softirq_done.
dm_softirq_done(m, endio) ==
    IF ~m.rq.clone
    THEN LET m1 == rq_completed([m EXCEPT !.rq.st = "ended"])
         IN  IF ~q_mq_ops THEN [m1 EXCEPT !.rq.special = FALSE] ELSE m1
    ELSE dm_done(m, m.rq.error, ~m.rq.failed, endio)

\* Lines 420-429: dm_complete_request: the completion runs later, in
\* softirq context.
dm_complete_request(m, error) ==
    [m EXCEPT !.rq.error = error, !.rq.st = "completing"]

\* Lines 437-441: dm_kill_unmapped_request.
dm_kill_unmapped_request(m, error) ==
    dm_complete_request([m EXCEPT !.rq.failed = TRUE], error)

\* Lines 471-484: dm_dispatch_clone_request; dret is what
\* blk_insert_cloned_request returns.
dm_dispatch_clone_request(m, dret) ==
    IF dret # BLK_MQ_RQ_QUEUE_OK /\ dret # BLK_MQ_RQ_QUEUE_BUSY
    THEN dm_complete_request(m, dret)
    ELSE IF dret = BLK_MQ_RQ_QUEUE_OK THEN [m EXCEPT !.rq.st = "dispatched"]
    ELSE m

\* map_request returns r.
Returns(m, r) == [m EXCEPT !.rq.attempt.ret = r]

\* A switch that requeues with a delay and returns DM_MAPIO_REQUEUE.
MapSwitch_requeue_ret(m, r) ==
    IF r = DM_MAPIO_SUBMITTED
    THEN Returns([m EXCEPT !.rq.st = "target", !.rq.attempt.handed = TRUE], r)
    ELSE IF r = DM_MAPIO_REQUEUE THEN Returns(m, r)
    ELSE IF r = DM_MAPIO_DELAY_REQUEUE
    THEN Returns([dm_requeue_original_request(m, TRUE) EXCEPT
                      !.rq.attempt.requeued = TRUE], DM_MAPIO_REQUEUE)
    ELSE IF r > 0 THEN Returns([m EXCEPT !.rq.st = "BUG"], r)
    ELSE Returns([dm_kill_unmapped_request(m, r) EXCEPT !.rq.attempt.completed = TRUE], r)

\* Lines 655-692 for a result other than DM_MAPIO_REMAPPED.
MapSwitch(m, r) ==
    IF r = DM_MAPIO_SUBMITTED
    THEN Returns([m EXCEPT !.rq.st = "target", !.rq.attempt.handed = TRUE], r)
    ELSE IF r = DM_MAPIO_REQUEUE THEN Returns(m, r)
    ELSE IF r = DM_MAPIO_DELAY_REQUEUE
    THEN Returns([dm_requeue_original_request(m, TRUE) EXCEPT
                      !.rq.attempt.requeued = TRUE], r)
    ELSE IF r > 0 THEN Returns([m EXCEPT !.rq.st = "BUG"], r)
    ELSE Returns([dm_kill_unmapped_request(m, r) EXCEPT !.rq.attempt.completed = TRUE], r)

\* A dispatch-busy path that leaves tio->clone as it is.
DispatchBusy_keep(m) ==
    LET m1 == release_clone(m)
    IN  MapSwitch(m1, IF ~q_mq_ops THEN DM_MAPIO_DELAY_REQUEUE ELSE DM_MAPIO_REQUEUE)

\* Lines 664-673: the clone could not be dispatched: it is released,
\* tio->clone is cleared and the request is to be requeued.
DispatchBusy(m) ==
    LET m1 == [release_clone(m) EXCEPT !.rq.clone = FALSE]
    IN  MapSwitch(m1, IF ~q_mq_ops THEN DM_MAPIO_DELAY_REQUEUE ELSE DM_MAPIO_REQUEUE)

\* Lines 654-692: check_again.
CheckAgain(m, r, dret) ==
    IF r = DM_MAPIO_REMAPPED
    THEN LET m1 == dm_dispatch_clone_request(m, dret)
         IN  IF dret = BLK_MQ_RQ_QUEUE_BUSY THEN DispatchBusy(m1)
             ELSE Returns([m1 EXCEPT !.rq.attempt.handed = (dret = BLK_MQ_RQ_QUEUE_OK),
                                     !.rq.attempt.completed = (dret # BLK_MQ_RQ_QUEUE_OK)], r)
    ELSE MapSwitch(m, r)

\* Lines 626-693: map_request; r is what the target's map_rq or
\* clone_and_map_rq returns, setup_ok whether setup_clone succeeds.
map_request(m0, r, setup_ok, dret) ==
    LET m == [m0 EXCEPT !.rq.attempt = [NoAttempt EXCEPT !.made = TRUE]]
    IN  IF m.rq.clone
        THEN IF r = DM_MAPIO_DELAY_REQUEUE THEN Returns(m, DM_MAPIO_REQUEUE)
             ELSE CheckAgain(m, r, dret)
        ELSE LET got == [m EXCEPT !.rq.live = TRUE, !.rq.obtained = @ + 1]
             IN  IF r < 0
                 THEN Returns([dm_kill_unmapped_request(m, r) EXCEPT
                                   !.rq.attempt.completed = TRUE], r)
                 ELSE IF r = DM_MAPIO_REMAPPED /\ ~setup_ok
                 THEN Returns(release_clone(got), DM_MAPIO_REQUEUE)
                 ELSE IF r = DM_MAPIO_REMAPPED
                 THEN CheckAgain([got EXCEPT !.rq.clone = TRUE], r, dret)
                 ELSE CheckAgain(m, r, dret)

\* Lines 546-564: init_tio.
init_tio(m) == [m EXCEPT !.rq.ti = FALSE, !.rq.clone = FALSE, !.rq.error = 0]

\* The request i and md->pending.
Machine(i) == [rq |-> reqs[i], pend |-> pending]

\* The machine m becomes the state of request i and md->pending.
Commit(i, m) ==
    /\ reqs' = [reqs EXCEPT ![i] = m.rq]
    /\ pending' = m.pend

(***************************************************************************)
(* Request-based dm: the handlers.  The device is a blk-mq device stacked  *)
(* on blk-mq devices, or a .request_fn device stacked on either kind.      *)
(***************************************************************************)
\* The times a request was started, from request i on.
RECURSIVE Starts(_)
Starts(i) == IF i > NRq THEN 0 ELSE reqs[i].starts + Starts(i + 1)

\* The requests that the queue may hand to the driver: MaxAttempts starts
\* are made in all.
Queued == { i \in Rqs : reqs[i].st = "queued" /\ Starts(1) < MaxAttempts }

\* Lines 882-920: dm_mq_queue_rq for request i; busy is what the target's
\* busy returns.  A return of BLK_MQ_RQ_QUEUE_BUSY leaves the request with
\* blk-mq, which queues it again.
dm_mq_queue_rq(i, busy, o) ==
    /\ q_mq_ops /\ ~q_stopped
    /\ i \in Queued
    /\ IF busy
       THEN Commit(i, [Machine(i) EXCEPT !.rq.attempt = [NoAttempt EXCEPT !.refused = TRUE]])
       ELSE LET m1 == dm_start_request(Machine(i))
                m2 == [init_tio(m1) EXCEPT !.rq.ti = TRUE]
                m3 == map_request(m2, o.r, o.setup_ok, o.dret)
            IN  IF m3.rq.attempt.ret = DM_MAPIO_REQUEUE
                THEN Commit(i, rq_completed([m3 EXCEPT !.rq.st = "queued",
                                                       !.rq.requeues = @ + 1,
                                                       !.rq.attempt.by_caller = TRUE]))
                ELSE Commit(i, m3)
    /\ UNCHANGED <<nftvars, spanvars, modvars, q_mq_ops, all_blk_mq, q_stopped, queue_lock, fn>>

\* Lines 774-778: the block layer takes the queue lock and calls the
\* request_fn of the queue.
blk_run_queue ==
    /\ ~q_mq_ops
    /\ fn.pc = "idle" /\ queue_lock = "none"
    /\ queue_lock' = "request_fn"
    /\ fn' = [pc |-> "check", rq |-> 0]
    /\ UNCHANGED <<nftvars, spanvars, modvars, q_mq_ops, all_blk_mq, pending, q_stopped, reqs>>

\* Line 804: while (!blk_queue_stopped(q)); the caller drops the lock when
\* the function returns.
dm_old_request_fn_check ==
    /\ fn.pc = "check"
    /\ IF q_stopped
       THEN fn' = NoFn /\ queue_lock' = "none"
       ELSE fn' = [fn EXCEPT !.pc = "peek"] /\ UNCHANGED queue_lock
    /\ UNCHANGED <<nftvars, spanvars, modvars, q_mq_ops, all_blk_mq, pending, q_stopped, reqs>>

\* Lines 566-618: dm_old_prep_fn of a request without tio: the tio is
\* allocated and initialized and, unless all the devices are blk-mq
\* devices, the clone is allocated and set up.
dm_old_prep_fn(m) ==
    LET m1 == [init_tio(m) EXCEPT !.rq.special = TRUE]
    IN  IF all_blk_mq THEN m1
        ELSE [m1 EXCEPT !.rq.clone = TRUE, !.rq.live = TRUE, !.rq.obtained = @ + 1]

\* Lines 805-820: blk_peek_request, which prepares the request, and the
\* test of the target; prep_ok is whether the allocations of the
\* preparation succeed.
dm_old_request_fn_peek(busy, prep_ok) ==
    /\ fn.pc = "peek"
    /\ IF Queued = {}
       THEN fn' = NoFn /\ queue_lock' = "none" /\ UNCHANGED <<reqs, pending>>
       ELSE \E i \in Queued :
                IF ~reqs[i].special /\ ~prep_ok
                THEN fn' = NoFn /\ queue_lock' = "none" /\ UNCHANGED <<reqs, pending>>
                ELSE LET m == IF reqs[i].special THEN Machine(i)
                                                 ELSE dm_old_prep_fn(Machine(i))
                     IN  IF busy
                         THEN /\ Commit(i, [m EXCEPT !.rq.attempt = [NoAttempt EXCEPT !.refused = TRUE]])
                              /\ fn' = NoFn /\ queue_lock' = "none"
                         ELSE /\ Commit(i, m)
                              /\ fn' = [pc |-> "start", rq |-> i]
                              /\ UNCHANGED queue_lock
    /\ UNCHANGED <<nftvars, spanvars, modvars, q_mq_ops, all_blk_mq, q_stopped>>

\* Lines 822-828: dm_start_request, tio->ti and the work for the kthread.
dm_old_request_fn_start ==
    /\ fn.pc = "start"
    /\ Commit(fn.rq, [dm_start_request(Machine(fn.rq)) EXCEPT !.rq.ti = TRUE,
                                                          !.rq.attempt = NoAttempt])
    /\ fn' = [pc |-> "check", rq |-> 0]
    /\ UNCHANGED <<nftvars, spanvars, modvars, q_mq_ops, all_blk_mq, q_stopped, queue_lock>>

\* Lines 727-733: map_tio_request, the work of the kthread; the requeue
\* takes the queue lock.
map_tio_request(i, o) ==
    /\ ~q_mq_ops /\ queue_lock = "none"
    /\ reqs[i].st = "started"
    /\ LET m == map_request(Machine(i), o.r, o.setup_ok, o.dret)
       IN  IF m.rq.attempt.ret = DM_MAPIO_REQUEUE
           THEN Commit(i, [dm_requeue_original_request(m, FALSE) EXCEPT
                               !.rq.attempt.by_caller = TRUE])
           ELSE Commit(i, m)
    /\ UNCHANGED <<nftvars, spanvars, modvars, q_mq_ops, all_blk_mq, q_stopped, queue_lock, fn>>

\* Lines 446-469: end_clone_request: the device below has ended the clone.
end_clone_request(i, error) ==
    /\ reqs[i].st = "dispatched"
    /\ Commit(i, dm_complete_request(Machine(i), error))
    /\ UNCHANGED <<nftvars, spanvars, modvars, q_mq_ops, all_blk_mq, q_stopped, queue_lock, fn>>

\* Lines 389-413: the softirq of a completed request; the end of a request
\* of a .request_fn queue takes the queue lock.
blk_done_softirq(i, endio) ==
    /\ reqs[i].st = "completing"
    /\ ~q_mq_ops => queue_lock = "none"
    /\ Commit(i, dm_softirq_done(Machine(i), endio))
    /\ UNCHANGED <<nftvars, spanvars, modvars, q_mq_ops, all_blk_mq, q_stopped, queue_lock, fn>>

\* A stop of the .request_fn queue that does not take the queue lock.
dm_old_stop_queue_nolock == q_stopped' = TRUE

\* Lines 86-94: dm_old_stop_queue.
dm_old_stop_queue == queue_lock = "none" /\ q_stopped' = TRUE

\* Lines 96-102: dm_mq_stop_queue.
dm_mq_stop_queue == q_stopped' = TRUE

\* Lines 104-110: dm_stop_queue.
dm_stop_queue ==
    /\ ~q_stopped
    /\ IF ~q_mq_ops THEN dm_old_stop_queue ELSE dm_mq_stop_queue
    /\ UNCHANGED <<nftvars, spanvars, modvars, q_mq_ops, all_blk_mq, pending, queue_lock, reqs, fn>>

\* Lines 60-84: dm_start_queue.
dm_start_queue ==
    /\ q_stopped
    /\ ~q_mq_ops => queue_lock = "none"
    /\ q_stopped' = FALSE
    /\ UNCHANGED <<nftvars, spanvars, modvars, q_mq_ops, all_blk_mq, pending, queue_lock, reqs, fn>>

\* The nf_tables side at rest.
NftIdle ==
    /\ rules = [c \in Chains |-> <<>>]
    /\ policy = NF_ACCEPT
    /\ chain_net = 1
    /\ nft_gencursor = [n \in Nets |-> 0]
    /\ nft_trace_enabled = FALSE
    /\ txn = "none"
    /\ pc = "idle"
    /\ prev = NoPrev(ZeroData)
    /\ pkt = NoPkt
    /\ chain = 0 /\ rule = HEAD /\ rulenum = 0
    /\ regs = [verdict |-> Verdict(NFT_CONTINUE, NULL), data |-> ZeroData]
    /\ stackptr = 0
    /\ jumpstack = [i \in 0 .. NFT_JUMP_STACK_SIZE - 1 |-> NoFrame]
    /\ gencursor = 0
    /\ info = NoInfo
    /\ retval = NF_DROP
    /\ tracelog = <<>> /\ evlog = <<>> /\ nevals = 0 /\ callers = <<>>
    /\ lost = FALSE /\ warned = FALSE
    /\ stats = [pkts |-> 0, bytes |-> 0]
    /\ tally = NoTally
    /\ percpu = <<>>

\* Line 934: a blk-mq mapped device is stacked on blk-mq devices only.
InitDm ==
    /\ NftIdle
    /\ SpanIdle /\ ModIdle
    /\ q_mq_ops \in BOOLEAN /\ all_blk_mq \in BOOLEAN
    /\ q_mq_ops => all_blk_mq
    /\ pending = [d \in Dirs |-> 0]
    /\ q_stopped = FALSE
    /\ queue_lock = "none"
    /\ reqs = [i \in Rqs |-> Request(i % 2)]
    /\ fn = NoFn

\* What happens in one call of map_request: what the target returns and,
\* where the code comes to ask, whether setup_clone succeeds and what
\* blk_insert_cloned_request returns; it returns BLK_MQ_RQ_QUEUE_BUSY for a
\* blk-mq queue only.
MapOutcomes ==
    { [r |-> r, setup_ok |-> TRUE, dret |-> BLK_MQ_RQ_QUEUE_OK] :
          r \in MapResults \ {DM_MAPIO_REMAPPED} }
    \cup { [r |-> DM_MAPIO_REMAPPED, setup_ok |-> FALSE, dret |-> BLK_MQ_RQ_QUEUE_OK] }
    \cup { [r |-> DM_MAPIO_REMAPPED, setup_ok |-> TRUE, dret |-> d] : d \in DispatchResults }

OutcomesHere ==
    { o \in MapOutcomes : o.dret = BLK_MQ_RQ_QUEUE_BUSY => all_blk_mq }

NextDm ==
    \/ \E i \in Rqs, busy \in BOOLEAN, o \in OutcomesHere : dm_mq_queue_rq(i, busy, o)
    \/ blk_run_queue
    \/ dm_old_request_fn_check
    \/ \E busy \in BOOLEAN, prep_ok \in BOOLEAN : dm_old_request_fn_peek(busy, prep_ok)
    \/ dm_old_request_fn_start
    \/ \E i \in Rqs, o \in OutcomesHere : map_tio_request(i, o)
    \/ \E i \in Rqs, error \in {0, -EIO} : end_clone_request(i, error)
    \/ \E i \in Rqs, endio \in EndioResults : blk_done_softirq(i, endio)
    \/ dm_stop_queue
    \/ dm_start_queue

SpecDm == InitDm /\ [][NextDm]_vars

(***************************************************************************)
(* The SPAN module of mlxsw (spectrum_span.c).  The functions work on the  *)
(* record S of the entries and of the registers MPAT, MPAR and SBIB; the   *)
(* calls are made under RTNL, one at a time.                               *)
(***************************************************************************)
\* The state of the SPAN module as one record.
SpanState == [entries |-> span_entries, sbib |-> sbib, mpar |-> mpar, mpat |-> mpat]

\* Lines 396-405 and 732-743: mlxsw_sp_span_entry_ops: the entry type that
\* can handle to_dev: a port, a gretap device, or none.
mlxsw_sp_span_entry_ops(to_dev) ==
    IF to_dev > NToDevs THEN "none"
    ELSE IF to_dev % 2 = 1 THEN "phys" ELSE "gretap"

\* Line 86: netdev_priv of a port device: every other one is a port of
\* another mlxsw instance.
netdev_priv(to_dev) ==
    IF to_dev % 4 = 3 THEN FOREIGN_PORT ELSE ((to_dev \div 4) % NSpanPorts) + 1

\* Lines 82-88, 163-195, 231-256, 407-412: ops->parms; g is what the tunnel, the
\* route and the neighbour of a gretap device resolve to.  It returns 0.
ops_parms(ops, to_dev, g) ==
    IF ops = "phys" THEN [dest_port |-> netdev_priv(to_dev), v |-> 0]
    ELSE IF ops = "gretap" THEN g
    ELSE NoParms

\* Lines 104, 118, 279, 377: a write of register MPAT for analyzer id that
\* reaches the hardware.
mpat_write(S, id, enable) ==
    [S EXCEPT !.mpat[id] = [cfg |-> enable,
                            twice |-> @.twice \/ (enable /\ @.cfg),
                            stray |-> @.stray \/ (~enable /\ ~@.cfg)]]

\* Lines 90-105, 258-280, 414-419: ops->configure; ok is whether the write
\* of the register succeeds.
ops_configure(S, id, ok) ==
    IF S.entries[id].ops = "nop" THEN [S |-> S, r |-> 0]
    ELSE IF ok THEN [S |-> mpat_write(S, id, TRUE), r |-> 0]
    ELSE [S |-> [S EXCEPT !.mpat[id].twice = @ \/ S.mpat[id].cfg], r |-> -EIO]

\* Lines 107-126, 282-287, 421-424: ops->deconfigure.
ops_deconfigure(S, id) ==
    IF S.entries[id].ops = "nop" THEN S ELSE mpat_write(S, id, FALSE)

\* Lines 432-450: mlxsw_sp_span_entry_configure.
mlxsw_sp_span_entry_configure(S, id, sparms, ok) ==
    IF sparms.dest_port # NULL
    THEN IF sparms.dest_port = FOREIGN_PORT
         THEN [S EXCEPT !.entries[id].parms = [sparms EXCEPT !.dest_port = NULL]]
         ELSE LET c == ops_configure(S, id, ok)
              IN  IF c.r # 0
                  THEN [c.S EXCEPT !.entries[id].parms = [sparms EXCEPT !.dest_port = NULL]]
                  ELSE [c.S EXCEPT !.entries[id].parms = sparms]
    ELSE [S EXCEPT !.entries[id].parms = sparms]

\* A deconfigure that does not look at parms.dest_port.
mlxsw_sp_span_entry_deconfigure_always(S, id) == ops_deconfigure(S, id)

\* Lines 452-457: mlxsw_sp_span_entry_deconfigure.
mlxsw_sp_span_entry_deconfigure(S, id) ==
    IF S.entries[id].parms.dest_port # NULL THEN ops_deconfigure(S, id) ELSE S

\* The least number of a set of numbers.
Least(I) == CHOOSE i \in I : \A j \in I : i <= j

\* Lines 459-484: mlxsw_sp_span_entry_create; e is the entry, NO_ENTRY for
\* NULL.
mlxsw_sp_span_entry_create(S, to_dev, ops, sparms, ok) ==
    LET free == { i \in SpanIds : S.entries[i].ref_count = 0 }
    IN  IF free = {} THEN [S |-> S, e |-> NO_ENTRY]
        ELSE LET i == Least(free)
                 S1 == [S EXCEPT !.entries[i].ops = ops,
                                 !.entries[i].ref_count = 1,
                                 !.entries[i].to_dev = to_dev]
             IN  [S |-> mlxsw_sp_span_entry_configure(S1, i, sparms, ok), e |-> i]

\* Lines 486-489: mlxsw_sp_span_entry_destroy.
mlxsw_sp_span_entry_destroy(S, id) == mlxsw_sp_span_entry_deconfigure(S, id)

\* Lines 491-504: mlxsw_sp_span_entry_find_by_port.
mlxsw_sp_span_entry_find_by_port(S, to_dev) ==
    LET found == { i \in SpanIds : S.entries[i].ref_count # 0 /\ S.entries[i].to_dev = to_dev }
    IN  IF found = {} THEN NO_ENTRY ELSE Least(found)

\* Lines 513-525: mlxsw_sp_span_entry_find_by_id.
mlxsw_sp_span_entry_find_by_id(S, span_id) ==
    LET found == { i \in SpanIds : S.entries[i].ref_count # 0 /\ S.entries[i].id = span_id }
    IN  IF found = {} THEN NO_ENTRY ELSE Least(found)

\* An entry_get that always creates an entry.
mlxsw_sp_span_entry_get_new(S, to_dev, ops, sparms, ok) ==
    mlxsw_sp_span_entry_create(S, to_dev, ops, sparms, ok)

\* Lines 527-543: mlxsw_sp_span_entry_get.
mlxsw_sp_span_entry_get(S, to_dev, ops, sparms, ok) ==
    LET e == mlxsw_sp_span_entry_find_by_port(S, to_dev)
    IN  IF e # NO_ENTRY
        THEN [S |-> [S EXCEPT !.entries[e].ref_count = @ + 1], e |-> e]
        ELSE mlxsw_sp_span_entry_create(S, to_dev, ops, sparms, ok)

\* Lines 545-552: mlxsw_sp_span_entry_put.
mlxsw_sp_span_entry_put(S, id) ==
    LET S1 == [S EXCEPT !.entries[id].ref_count = @ - 1]
    IN  IF S1.entries[id].ref_count = 0 THEN mlxsw_sp_span_entry_destroy(S1, id) ELSE S1

\* Lines 554-570: mlxsw_sp_span_is_egress_mirror.
mlxsw_sp_span_is_egress_mirror(S, port) ==
    \E i \in SpanIds : \E k \in 1 .. Len(S.entries[i].bound_ports_list) :
        /\ S.entries[i].bound_ports_list[k].local_port = port
        /\ S.entries[i].bound_ports_list[k].type = MLXSW_SP_SPAN_EGRESS

\* mlxsw_sp_bytes_cells: the cells that hold the bytes.
mlxsw_sp_bytes_cells(bytes) == (bytes + cell_size - 1) \div cell_size

\* Lines 572-576: mlxsw_sp_span_mtu_to_buffsize.
mlxsw_sp_span_mtu_to_buffsize(mtu) == mlxsw_sp_bytes_cells((mtu * 5) \div 2) + 1

\* Lines 601-615: mlxsw_sp_span_entry_bound_port_find: the place of the
\* first record of the list that matches, 0 for NULL.
mlxsw_sp_span_entry_bound_port_find(entry, type, port, bind) ==
    LET found == { k \in 1 .. Len(entry.bound_ports_list) :
                       entry.bound_ports_list[k] = InspectedPort(port, type, bind) }
    IN  IF found = {} THEN 0 ELSE Least(found)

\* Lines 617-631: mlxsw_sp_span_inspected_port_bind, when the write of
\* register MPAR reaches the hardware.
mlxsw_sp_span_inspected_port_bind(S, port, id, type, bind) ==
    [S EXCEPT !.mpar[<<port, type>>] = IF bind THEN id ELSE MPAR_UNBOUND]

\* Lines 694-699: err_port_bind of mlxsw_sp_span_inspected_port_add.
err_port_bind(S, port, type) ==
    IF type = MLXSW_SP_SPAN_EGRESS THEN [S EXCEPT !.sbib[port] = 0] ELSE S

\* An inspected_port_add without the test for a bound (port, direction).
mlxsw_sp_span_inspected_port_add_nocheck(S, port, id, type, bind, mtu, fail) ==
    IF type = MLXSW_SP_SPAN_EGRESS /\ fail = "sbib" THEN [S |-> S, r |-> -EIO]
    ELSE LET S1 == IF type = MLXSW_SP_SPAN_EGRESS
                   THEN [S EXCEPT !.sbib[port] = mlxsw_sp_span_mtu_to_buffsize(mtu)]
                   ELSE S
         IN  IF bind /\ fail = "mpar"
             THEN [S |-> err_port_bind(S1, port, type), r |-> -EIO]
             ELSE LET S2 == IF bind
                            THEN mlxsw_sp_span_inspected_port_bind(S1, port, id, type, TRUE)
                            ELSE S1
                  IN  IF fail = "alloc"
                      THEN LET S3 == IF bind
                                     THEN mlxsw_sp_span_inspected_port_bind(S2, port, id, type, FALSE)
                                     ELSE S2
                           IN  [S |-> err_port_bind(S3, port, type), r |-> -ENOMEM]
                      ELSE [S |-> [S2 EXCEPT !.entries[id].bound_ports_list =
                                       Append(@, InspectedPort(port, type, bind))],
                            r |-> 0]

\* Lines 633-700: mlxsw_sp_span_inspected_port_add; mtu is port->dev->mtu,
\* fail the step that fails: the write of SBIB, the write of MPAR, the
\* allocation of the record, or none.
mlxsw_sp_span_inspected_port_add(S, port, id, type, bind, mtu, fail) ==
    IF bind /\ \E i \in SpanIds :
                   mlxsw_sp_span_entry_bound_port_find(S.entries[i], type, port, bind) # 0
    THEN [S |-> S, r |-> -EEXIST]
    ELSE mlxsw_sp_span_inspected_port_add_nocheck(S, port, id, type, bind, mtu, fail)

\* The sequence s without its k-th element.
ListDel(s, k) == [j \in 1 .. Len(s) - 1 |-> IF j < k THEN s[j] ELSE s[j + 1]]

\* Lines 702-730: mlxsw_sp_span_inspected_port_del.
mlxsw_sp_span_inspected_port_del(S, port, id, type, bind) ==
    LET k == mlxsw_sp_span_entry_bound_port_find(S.entries[id], type, port, bind)
    IN  IF k = 0 THEN S
        ELSE LET S1 == IF bind
                       THEN mlxsw_sp_span_inspected_port_bind(S, port, id, type, FALSE)
                       ELSE S
                 S2 == IF type = MLXSW_SP_SPAN_EGRESS
                       THEN [S1 EXCEPT !.sbib[port] = 0] ELSE S1
                 S3 == mlxsw_sp_span_entry_put(S2, id)
             IN  [S3 EXCEPT !.entries[id].bound_ports_list = ListDel(@, k)]

\* Whether some entry has a record with bound set for (port, type).
IsBound(S, port, type) ==
    \E i \in SpanIds :
        mlxsw_sp_span_entry_bound_port_find(S.entries[i], type, port, TRUE) # 0

\* The inspected-port records of all the entries.
RECURSIVE TotalRecs(_, _)
TotalRecs(S, i) ==
    IF i >= NSpanEntries THEN 0
    ELSE Len(S.entries[i].bound_ports_list) + TotalRecs(S, i + 1)

\* The record S becomes the state of the SPAN module.
SpanCommit(S) ==
    /\ span_entries' = S.entries
    /\ sbib' = S.sbib
    /\ mpar' = S.mpar
    /\ mpat' = S.mpat

\* Lines 745-783: mlxsw_sp_span_mirror_add, with the state it leaves and
\* what it returns.
mirror_add_result(S, from, to_dev, type, bind, g, ok, mtu, fail) ==
    LET ops == mlxsw_sp_span_entry_ops(to_dev)
    IN  IF ops = "none" THEN [S |-> S, r |-> -EOPNOTSUPP, id |-> NO_ENTRY]
        ELSE LET G == mlxsw_sp_span_entry_get(S, to_dev, ops, ops_parms(ops, to_dev, g), ok)
             IN  IF G.e = NO_ENTRY THEN [S |-> S, r |-> -ENOENT, id |-> NO_ENTRY]
                 ELSE LET A == mlxsw_sp_span_inspected_port_add(G.S, from, G.e, type,
                                                                bind, mtu, fail)
                      IN  IF A.r # 0
                          THEN [S |-> mlxsw_sp_span_entry_put(A.S, G.e), r |-> A.r,
                                id |-> NO_ENTRY]
                          ELSE [S |-> A.S, r |-> 0, id |-> G.e]

\* Lines 745-783: mlxsw_sp_span_mirror_add(from, to_dev, type, bind,
\* &span_id).  No more than MaxRecs records are allocated.
mlxsw_sp_span_mirror_add(from, to_dev, type, bind, g, ok, mtu, fail) ==
    /\ fail = "none" => TotalRecs(SpanState, 0) < MaxRecs
    /\ LET R == mirror_add_result(SpanState, from, to_dev, type, bind, g, ok, mtu, fail)
       IN  /\ SpanCommit(R.S)
           /\ span_ret' = [op |-> "add", ret |-> R.r,
                           conflict |-> bind /\ IsBound(SpanState, from, type)]
    /\ UNCHANGED <<nftvars, dmvars, modvars>>

\* Lines 785-799: mlxsw_sp_span_mirror_del(from, span_id, type, bind).
mlxsw_sp_span_mirror_del(from, span_id, type, bind) ==
    /\ LET e == mlxsw_sp_span_entry_find_by_id(SpanState, span_id)
       IN  IF e = NO_ENTRY THEN SpanCommit(SpanState)
           ELSE SpanCommit(mlxsw_sp_span_inspected_port_del(SpanState, from, e, type, bind))
    /\ span_ret' = [NoSpanCall EXCEPT !.op = "del"]
    /\ UNCHANGED <<nftvars, dmvars, modvars>>

\* Lines 506-511: mlxsw_sp_span_entry_invalidate, for an entry in use that
\* the caller found by its device.
mlxsw_sp_span_entry_invalidate(id) ==
    /\ span_entries[id].ref_count > 0
    /\ SpanCommit([mlxsw_sp_span_entry_deconfigure(SpanState, id) EXCEPT
                       !.entries[id].ops = "nop"])
    /\ span_ret' = [NoSpanCall EXCEPT !.op = "invalidate"]
    /\ UNCHANGED <<nftvars, dmvars, modvars>>

\* Lines 807-821: the body of the loop of mlxsw_sp_span_respin for entry i
\* and the entries after it.
RECURSIVE respin_from(_, _, _, _)
respin_from(S, i, g, ok) ==
    IF i >= NSpanEntries THEN S
    ELSE IF S.entries[i].ref_count = 0 THEN respin_from(S, i + 1, g, ok)
    ELSE LET sparms == ops_parms(S.entries[i].ops, S.entries[i].to_dev, g)
         IN  IF sparms # S.entries[i].parms
             THEN respin_from(mlxsw_sp_span_entry_configure(
                                  mlxsw_sp_span_entry_deconfigure(S, i), i, sparms, ok),
                              i + 1, g, ok)
             ELSE respin_from(S, i + 1, g, ok)

\* Lines 801-823: mlxsw_sp_span_respin.
mlxsw_sp_span_respin(g, ok) ==
    /\ SpanCommit(respin_from(SpanState, 0, g, ok))
    /\ span_ret' = [NoSpanCall EXCEPT !.op = "respin"]
    /\ UNCHANGED <<nftvars, dmvars, modvars>>

\* Lines 578-599: mlxsw_sp_span_port_mtu_update.
mlxsw_sp_span_port_mtu_update(port, mtu, ok) ==
    /\ IF mlxsw_sp_span_is_egress_mirror(SpanState, port)
       THEN IF ok
            THEN /\ sbib' = [sbib EXCEPT ![port] = mlxsw_sp_span_mtu_to_buffsize(mtu)]
                 /\ span_ret' = [NoSpanCall EXCEPT !.op = "mtu"]
            ELSE /\ UNCHANGED sbib
                 /\ span_ret' = [NoSpanCall EXCEPT !.op = "mtu", !.ret = -EIO]
       ELSE /\ UNCHANGED sbib
            /\ span_ret' = [NoSpanCall EXCEPT !.op = "mtu"]
    /\ UNCHANGED <<nftvars, dmvars, modvars, span_entries, mpar, mpat>>

\* Lines 45-68: mlxsw_sp_span_init.
InitSpan ==
    /\ NftIdle /\ DmIdle /\ ModIdle
    /\ span_entries = [i \in SpanIds |-> SpanEntry(i)]
    /\ sbib = [p \in SpanPorts |-> 0]
    /\ mpar = [pt \in SpanPorts \X SpanTypes |-> MPAR_UNBOUND]
    /\ mpat = [i \in SpanIds |-> NoAnalyzer]
    /\ span_ret = NoSpanCall

\* The steps that may fail in a call of mlxsw_sp_span_mirror_add.
SpanFails == {"none", "sbib", "mpar", "alloc"}

\* What a call of mlxsw_sp_span_mirror_add meets: the parameters of a
\* gretap device, whether the write of MPAT succeeds, the mtu of an egress
\* port, and the step that fails.
AddInputs ==
    { x \in [from : SpanPorts, to_dev : ToDevs, type : SpanTypes, bind : BOOLEAN,
             g : GreParms, ok : BOOLEAN, mtu : Mtus, fail : SpanFails] :
          /\ mlxsw_sp_span_entry_ops(x.to_dev) # "gretap" => x.g = NoParms
          /\ ops_parms(mlxsw_sp_span_entry_ops(x.to_dev), x.to_dev, x.g).dest_port
                 \in {NULL, FOREIGN_PORT} => x.ok
          /\ x.type # MLXSW_SP_SPAN_EGRESS => x.fail # "sbib"
          /\ ~x.bind => x.fail # "mpar" }

\* The calls of mirror_add of SpecSpan: the write of MPAT succeeds and a
\* gretap device resolves to a port.
SpanAddInputs ==
    { x \in AddInputs :
          /\ x.ok
          /\ mlxsw_sp_span_entry_ops(x.to_dev) = "gretap" => x.g = [dest_port |-> 1, v |-> 0] }

\* The calls of mirror_add of SpecRespin: ingress mirrors of the first port
\* that are not bound.
RespinAddInputs ==
    { x \in AddInputs :
          /\ x.from = 1 /\ x.type = MLXSW_SP_SPAN_INGRESS /\ ~x.bind
          /\ x.fail \in {"none", "alloc"} }

\* Mirrors are added and deleted and the mtu of a port changes.
NextSpan ==
    \/ \E x \in SpanAddInputs :
           mlxsw_sp_span_mirror_add(x.from, x.to_dev, x.type, x.bind, x.g, x.ok,
                                    x.mtu, x.fail)
    \/ \E from \in SpanPorts, span_id \in SpanIds, type \in SpanTypes, bind \in BOOLEAN :
           mlxsw_sp_span_mirror_del(from, span_id, type, bind)
    \/ \E port \in SpanPorts, mtu \in Mtus, ok \in BOOLEAN :
           mlxsw_sp_span_port_mtu_update(port, mtu, ok)

\* Mirrors are added and deleted, devices mirrored to are unregistered and
\* the routes and neighbours change.
NextRespin ==
    \/ \E x \in RespinAddInputs :
           mlxsw_sp_span_mirror_add(x.from, x.to_dev, x.type, x.bind, x.g, x.ok,
                                    x.mtu, x.fail)
    \/ \E span_id \in SpanIds :
           mlxsw_sp_span_mirror_del(1, span_id, MLXSW_SP_SPAN_INGRESS, FALSE)
    \/ \E id \in SpanIds : mlxsw_sp_span_entry_invalidate(id)
    \/ \E g \in GreParms, ok \in BOOLEAN : mlxsw_sp_span_respin(g, ok)

SpecSpan == InitSpan /\ [][NextSpan]_vars

SpecRespin == InitSpan /\ [][NextRespin]_vars

(***************************************************************************)
(* The registration of the basic expression types (nf_tables_core.c,       *)
(* lines 235-272), one call of nft_register_expr or nft_unregister_expr    *)
(* per step.                                                               *)
(***************************************************************************)
\* Lines 235-244: nft_basic_types.
nft_basic_types ==
    <<"imm", "cmp", "lookup", "bitwise", "byteorder", "payload", "dynset", "range">>

\* The errors nft_register_expr may return.
RegErrs == {-ENOMEM, -EEXIST, -EBUSY}

\* The module is not loaded; history: the types the last
\* nf_tables_core_module_init had registered when it failed, and what it
\* returned.
Unloaded == [pc |-> "unloaded", i |-> 0, err |-> 0, n |-> 0, ret |-> 0]

\* nft_register_expr adds the type at the end of the list.
nft_register_expr(reg, type) == Append(reg, type)

\* nft_unregister_expr takes the type off the list.
nft_unregister_expr(reg, type) == SelectSeq(reg, LAMBDA t : t # type)

\* Line 248: nf_tables_core_module_init is called.
nf_tables_core_module_init ==
    /\ modst.pc = "unloaded"
    /\ modst' = [Unloaded EXCEPT !.pc = "init"]
    /\ modlog' = <<>>
    /\ UNCHANGED <<nftvars, dmvars, spanvars, registry>>

\* Lines 250-254: one turn of the loop; err is what nft_register_expr
\* returns.
nf_tables_core_module_init_register(err) ==
    /\ modst.pc = "init" /\ modst.i < Len(nft_basic_types)
    /\ IF err = 0
       THEN /\ registry' = nft_register_expr(registry, nft_basic_types[modst.i + 1])
            /\ modlog' = Append(modlog, <<"register", modst.i + 1>>)
            /\ modst' = [modst EXCEPT !.i = @ + 1]
       ELSE /\ modst' = [modst EXCEPT !.pc = "err", !.err = err, !.n = modst.i]
            /\ UNCHANGED <<registry, modlog>>
    /\ UNCHANGED <<nftvars, dmvars, spanvars>>

\* Lines 256-257: the loop is over: return 0.
nf_tables_core_module_init_done ==
    /\ modst.pc = "init" /\ modst.i = Len(nft_basic_types)
    /\ modst' = [modst EXCEPT !.pc = "loaded", !.ret = 0, !.n = modst.i]
    /\ UNCHANGED <<nftvars, dmvars, spanvars, registry, modlog>>

\* A rollback that unregisters the type that failed as well.
nf_tables_core_module_init_err_all ==
    /\ modst.pc = "err"
    /\ IF modst.i >= 0 /\ modst.i < Len(nft_basic_types)
       THEN /\ registry' = nft_unregister_expr(registry, nft_basic_types[modst.i + 1])
            /\ modlog' = Append(modlog, <<"unregister", modst.i + 1>>)
            /\ modst' = [modst EXCEPT !.i = @ - 1]
       ELSE /\ modst' = [modst EXCEPT !.pc = "unloaded", !.ret = modst.err]
            /\ UNCHANGED <<registry, modlog>>
    /\ UNCHANGED <<nftvars, dmvars, spanvars>>

\* Lines 259-262: err: while (i-- > 0) nft_unregister_expr(...); return err.
nf_tables_core_module_init_err ==
    /\ modst.pc = "err"
    /\ IF modst.i > 0
       THEN /\ registry' = nft_unregister_expr(registry, nft_basic_types[modst.i])
            /\ modlog' = Append(modlog, <<"unregister", modst.i>>)
            /\ modst' = [modst EXCEPT !.i = @ - 1]
       ELSE /\ modst' = [modst EXCEPT !.pc = "unloaded", !.ret = modst.err]
            /\ UNCHANGED <<registry, modlog>>
    /\ UNCHANGED <<nftvars, dmvars, spanvars>>

\* Lines 265-269: nf_tables_core_module_exit is called.
nf_tables_core_module_exit ==
    /\ modst.pc = "loaded"
    /\ modst' = [modst EXCEPT !.pc = "exit", !.i = Len(nft_basic_types)]
    /\ UNCHANGED <<nftvars, dmvars, spanvars, registry, modlog>>

\* Lines 270-272: while (i-- > 0) nft_unregister_expr(...).
nf_tables_core_module_exit_unregister ==
    /\ modst.pc = "exit"
    /\ IF modst.i > 0
       THEN /\ registry' = nft_unregister_expr(registry, nft_basic_types[modst.i])
            /\ modlog' = Append(modlog, <<"unregister", modst.i>>)
            /\ modst' = [modst EXCEPT !.i = @ - 1]
       ELSE /\ modst' = [modst EXCEPT !.pc = "unloaded"]
            /\ UNCHANGED <<registry, modlog>>
    /\ UNCHANGED <<nftvars, dmvars, spanvars>>

\* The module is not loaded and no type is registered.
InitMod ==
    /\ NftIdle /\ DmIdle /\ SpanIdle
    /\ modst = Unloaded
    /\ registry = <<>>
    /\ modlog = <<>>

NextMod ==
    \/ nf_tables_core_module_init
    \/ \E err \in RegErrs \cup {0} : nf_tables_core_module_init_register(err)
    \/ nf_tables_core_module_init_done
    \/ nf_tables_core_module_init_err
    \/ nf_tables_core_module_exit
    \/ nf_tables_core_module_exit_unregister

SpecMod == InitMod /\ [][NextMod]_vars

(***************************************************************************)
(* Properties of one traversal.                                            *)
(***************************************************************************)
InNamespace == pc # "idle" /\ pkt.net = chain_net

\* The step out of a chain on NFT_RETURN or at the end of its list: with a
\* caller, that is a chain left by NFT_JUMP and not yet resumed, the
\* traversal goes on in the caller after the rule that jumped; without one,
\* whatever NFT_GOTO came before, it ends with the policy of the base chain
\* and evaluates nothing more.
ReturnResumes ==
    (pc = "verdict" /\ regs.verdict.code \in {NFT_RETURN, NFT_CONTINUE}) =>
        IF callers # <<>>
        THEN /\ pc' = "loop"
             /\ chain' = callers[Len(callers)].chain
             /\ rule' = callers[Len(callers)].rule
             /\ nevals' = nevals
        ELSE /\ pc' = "done"
             /\ retval' = policy
             /\ nevals' = nevals /\ evlog' = evlog

\* NFT_JUMP below the capacity makes the jumping rule a caller; NFT_GOTO
\* makes none; both go to the first rule of the target.
JumpRecords ==
    /\ (pc = "verdict" /\ regs.verdict.code = NFT_JUMP /\ stackptr < NFT_JUMP_STACK_SIZE) =>
           /\ callers' = Append(callers, [chain |-> chain, rule |-> rule])
           /\ chain' = regs.verdict.chain /\ rule' = HEAD /\ pc' = "loop"
    /\ (pc = "verdict" /\ regs.verdict.code = NFT_GOTO) =>
           /\ callers' = callers
           /\ chain' = regs.verdict.chain /\ rule' = HEAD /\ pc' = "loop"

\* The base chain is [Jump(B)] and B is [Return].
JumpReturnScenario ==
    /\ Len(rules[basechain]) = 1
    /\ ~GenmaskBit(rules[basechain][1].genmask, gencursor)
    /\ RuleVerdict(rules[basechain][1]).code = NFT_JUMP
    /\ LET B == RuleVerdict(rules[basechain][1]).chain
       IN  /\ Len(rules[B]) = 1
           /\ ~GenmaskBit(rules[B][1].genmask, gencursor)
           /\ RuleVerdict(rules[B][1]).code = NFT_RETURN

\* C1: a Return or the end of the list in a chain entered by Jump resumes the
\* jumping chain right after the jumping rule; in a chain entered by Goto
\* with no frame on the stack it resumes nothing and ends the traversal with
\* the base chain's policy; the base chain [Jump(B)] with B = [Return] ends
\* every packet with the base chain's policy.
JumpGotoDistinction ==
    /\ [][ReturnResumes /\ JumpRecords]_vars
    /\ [](pc = "done" /\ InNamespace /\ JumpReturnScenario =>
              retval = policy /\ nevals = 2)

\* C1, its case: B's Return has resumed the base chain after its jumping rule.
JumpReturnResumed ==
    /\ pc = "loop" /\ chain = basechain /\ stackptr = 0 /\ callers = <<>>
    /\ Len(evlog) = 2
    /\ evlog[1].code = NFT_JUMP /\ evlog[1].chain = basechain
    /\ evlog[2].code = NFT_RETURN /\ evlog[2].chain # basechain
    /\ rule = evlog[1].rule

\* Every rule of the base chain that the traversal sees leaves NFT_BREAK or
\* NFT_CONTINUE.
NoRuleDecides ==
    \A i \in 1 .. Len(rules[basechain]) :
        \/ GenmaskBit(rules[basechain][i].genmask, gencursor)
        \/ RuleVerdict(rules[basechain][i]).code \in {NFT_BREAK, NFT_CONTINUE}

\* C2: for a packet of the chain's namespace, when every visible rule of the
\* base chain ends with Break or Continue, nft_do_chain returns the base
\* chain's policy, Drop when the policy is Drop.
DefaultPolicyFallthrough ==
    (pc = "done" /\ InNamespace /\ NoRuleDecides) =>
        /\ retval = policy
        /\ (policy = NF_DROP => retval = NF_DROP)

\* C2, its case: a base chain of two visible rules, one of them breaking,
\* under policy Drop.
FellThroughToDrop ==
    /\ pc = "done" /\ InNamespace /\ NoRuleDecides
    /\ policy = NF_DROP /\ retval = NF_DROP
    /\ nevals = 2
    /\ \E i \in 1 .. Len(evlog) : evlog[i].code = NFT_BREAK

TerminalDispositions == {NF_ACCEPT, NF_DROP, NF_QUEUE, NF_STOLEN}

\* C3: when the verdict register holds Accept, Drop, Queue or Stolen the
\* traversal evaluates nothing more, pops no frame and returns that
\* disposition; every value returned is one of these four.
TerminalEndsTraversal ==
    /\ [][(pc = "verdict" /\ VerdictMask(regs.verdict.code) \in TerminalDispositions) =>
              /\ pc' = "done"
              /\ retval' = regs.verdict.code
              /\ stackptr' = stackptr /\ nevals' = nevals]_vars
    /\ [](pc = "done" => VerdictMask(retval) \in TerminalDispositions)

\* The next rule of the list is evaluated, and counted in the rule number.
NextEvaluated ==
    /\ rulenum' = rulenum + 1
    /\ nevals < EvalCap => nevals' = nevals + 1
    /\ ~lost' => /\ evlog' # evlog
                 /\ evlog'[Len(evlog')].rule = NextRule(chain, rule).handle

\* The next rule of the list is passed over.
NextSkipped ==
    /\ rulenum' = rulenum /\ nevals' = nevals /\ evlog' = evlog /\ regs' = regs
    /\ pc' = "loop" /\ rule' = NextRule(chain, rule).handle

\* C4 as stated: the next rule is evaluated iff its bit for the sampled
\* generation is set, and skipped when the bit is unset.
VisibleIffBitSet ==
    [][(pc = "loop" /\ HasNext(chain, rule)) =>
           IF GenmaskBit(NextRule(chain, rule).genmask, gencursor)
           THEN NextEvaluated ELSE NextSkipped]_vars

\* C4: in a traversal that sampled generation g, the next rule is evaluated
\* and counted in the rule number iff its bit for g is clear; a rule whose
\* bit for g is set is skipped with none of its expressions evaluated; g is
\* the generation read at the start, for the whole traversal.
VisibleIffBitClear ==
    /\ [][(pc = "loop" /\ HasNext(chain, rule)) =>
              IF GenmaskBit(NextRule(chain, rule).genmask, gencursor)
              THEN NextSkipped ELSE NextEvaluated]_vars
    /\ [][pc # "idle" => gencursor' = gencursor]_vars
    /\ [](pc # "idle" => gencursor = nft_gencursor[pkt.net])

\* C4, its case: under generation 1 a rule with bit 1 set was skipped and
\* the rule after it, with bit 0 set and bit 1 clear, was evaluated.
SkippedThenEvaluated ==
    /\ pc = "done" /\ InNamespace /\ gencursor = 1
    /\ Len(rules[basechain]) = 2
    /\ rules[basechain][1].genmask = 2
    /\ rules[basechain][2].genmask = 1
    /\ nevals = 1
    /\ Len(evlog) = 1
    /\ evlog[1].chain = basechain /\ evlog[1].rule = rules[basechain][2].handle
    /\ evlog[1].genmask = 1 /\ evlog[1].code = NF_DROP

\* C8: 0 <= stackptr <= NFT_JUMP_STACK_SIZE always and the frames are those
\* of indexes below NFT_JUMP_STACK_SIZE; a Jump with the stack full aborts
\* the traversal, writing no frame and evaluating nothing more; a Jump with
\* fewer frames pushes its frame and enters the target.
JumpStackBound ==
    /\ [](/\ 0 <= stackptr /\ stackptr <= NFT_JUMP_STACK_SIZE
          /\ DOMAIN jumpstack = 0 .. NFT_JUMP_STACK_SIZE - 1)
    /\ [][(pc = "verdict" /\ regs.verdict.code = NFT_JUMP) =>
              IF stackptr = NFT_JUMP_STACK_SIZE
              THEN /\ pc' = "BUG"
                   /\ jumpstack' = jumpstack /\ stackptr' = stackptr
                   /\ nevals' = nevals /\ evlog' = evlog
              ELSE /\ pc' = "loop"
                   /\ stackptr' = stackptr + 1
                   /\ jumpstack' = [jumpstack EXCEPT
                                      ![stackptr] = Frame(chain, rule, rulenum)]
                   /\ chain' = regs.verdict.chain /\ rule' = HEAD]_vars
    /\ [][pc = "BUG" => pc' = "BUG" /\ nevals' = nevals]_vars

\* C8, its case: the seventeenth nested Jump has hit BUG_ON.
JumpStackOverflowed ==
    /\ pc = "BUG" /\ stackptr = NFT_JUMP_STACK_SIZE
    /\ regs.verdict.code = NFT_JUMP
    /\ \A i \in 0 .. NFT_JUMP_STACK_SIZE - 1 : jumpstack[i] # NoFrame

\* C9: for a packet of another namespace than the chain's, nft_do_chain
\* returns Accept, evaluates no rule, emits no trace event and leaves the
\* packet and byte counters alone, whatever the rules and the policy.
NamespaceGuard ==
    (pc # "idle" /\ pkt.net # chain_net) =>
        /\ pc = "done" /\ retval = NF_ACCEPT
        /\ nevals = 0 /\ evlog = <<>> /\ tracelog = <<>> /\ ~lost
        /\ stats = [pkts |-> 0, bytes |-> 0]
        /\ info = NoInfo /\ stackptr = 0

\* C9, its case: a traced packet of another namespace, tracing enabled, a
\* base chain with rules and policy Drop.
ForeignPacketAccepted ==
    /\ pc = "done" /\ pkt.net # chain_net /\ retval = NF_ACCEPT
    /\ nft_trace_enabled /\ pkt.nf_trace
    /\ policy = NF_DROP
    /\ Len(rules[basechain]) > 0
    /\ ~GenmaskBit(rules[basechain][1].genmask, nft_gencursor[chain_net])

\* A code that is none of Continue, Break, Jump, Goto, Return, Accept, Drop,
\* Queue.
Unrecognized(code) ==
    /\ code \notin {NFT_CONTINUE, NFT_BREAK, NFT_JUMP, NFT_GOTO, NFT_RETURN}
    /\ VerdictMask(code) \notin {NF_ACCEPT, NF_DROP, NF_QUEUE}

\* C10: an unrecognized verdict code aborts the traversal with a diagnostic
\* and returns Drop: no parent chain is resumed, the policy is not returned.
UnrecognizedDrops ==
    [][(pc = "verdict" /\ Unrecognized(regs.verdict.code)) =>
           /\ pc' = "done"
           /\ retval' = NF_DROP
           /\ warned'
           /\ stackptr' = stackptr]_vars

(***************************************************************************)
(* Properties over the jump/goto graph of the rule set.                    *)
(***************************************************************************)
\* The chains that a rule of chain c jumps or goes to.
Targets(c) ==
    { RuleVerdict(rules[c][i]).chain :
        i \in { j \in 1 .. Len(rules[c]) :
                  RuleVerdict(rules[c][j]).code \in {NFT_JUMP, NFT_GOTO} } }

\* The chains reached from the set S in at most n further jumps or gotos.
RECURSIVE ReachedIn(_, _)
ReachedIn(S, n) ==
    IF n = 0 THEN S ELSE ReachedIn(S \cup UNION { Targets(c) : c \in S }, n - 1)

\* No chain reaches itself.
AcyclicRules == \A c \in Chains : c \notin ReachedIn(Targets(c), NChains)

\* The rules, over all chains, that jump or go to chain t.
EntriesTo(t) ==
    { <<c, i>> \in Chains \X (1 .. MaxRules + MaxWidth + MaxNew + 1) :
        /\ i <= Len(rules[c])
        /\ RuleVerdict(rules[c][i]).code \in {NFT_JUMP, NFT_GOTO}
        /\ RuleVerdict(rules[c][i]).chain = t }

\* No chain is the target of two rules.
SingleEntry == \A t \in Chains : Cardinality(EntriesTo(t)) <= 1

\* total_visible_rules: the rules, over all chains, that the generation of
\* the traversal sees.
VisibleIn(c) == { i \in 1 .. Len(rules[c]) : ~GenmaskBit(rules[c][i].genmask, gencursor) }
TotalVisible == LET RECURSIVE Sum(_)
                    Sum(c) == IF c = 0 THEN 0 ELSE Cardinality(VisibleIn(c)) + Sum(c - 1)
                IN  Sum(NChains)

\* C5 as stated: the traversal never evaluates a rule whose bit for the
\* generation E it started under is unset.
EvaluatesOnlyBitSet ==
    pc # "idle" =>
        \A i \in 1 .. Len(evlog) : GenmaskBit(evlog[i].genmask, gencursor)

\* C5: with a transaction linking rules and flipping the generation at any
\* point of the traversal, the traversal keeps the generation E it read at its
\* start, never evaluates a rule whose bit for E is set, and passes over
\* only rules whose bit for E is set: what it evaluates is defined by the
\* bits for E and not by the generation current at the time.
GenerationIsolation ==
    /\ [](pc # "idle" =>
              \A i \in 1 .. Len(evlog) : ~GenmaskBit(evlog[i].genmask, gencursor))
    /\ [][(pc = "idle" /\ pc' # "idle") => gencursor' = nft_gencursor[pkt'.net]]_vars
    /\ [][pc # "idle" => gencursor' = gencursor]_vars
    /\ [][(pc = "loop" /\ HasNext(chain, rule) /\ rule' # rule /\ chain' = chain
             /\ rulenum' = rulenum /\ pc' = "loop") =>
              GenmaskBit(NextRule(chain, rule).genmask, gencursor)]_vars
    /\ [][(pc = "loop" /\ HasNext(chain, rule) /\ rulenum' = rulenum + 1) =>
              ~GenmaskBit(NextRule(chain, rule).genmask, gencursor)]_vars

\* C5, its case: the generation was flipped during the traversal, after a
\* rule was linked; the traversal passed over a rule of the base chain and
\* evaluated another under the generation it started with.
FlippedDuringTraversal ==
    /\ pc = "done" /\ InNamespace
    /\ txn = "committed"
    /\ gencursor # nft_gencursor[chain_net]
    /\ TotalRules(rules) > 3
    /\ nevals > 0
    /\ \E i \in 1 .. Len(rules[basechain]) :
           GenmaskBit(rules[basechain][i].genmask, gencursor)

\* C6 as stated, and counting a stop at BUG_ON as a stop: every traversal
\* eventually stops, whatever the jump and goto targets.
AlwaysTerminates == <>(pc \in {"done", "BUG"})

\* C6: on a rule set whose jump/goto graph has no cycle (its nesting is then
\* below the number of chains) the traversal eventually returns a
\* disposition.
AcyclicTerminates == AcyclicRules ~> (pc = "done")

\* C6, its case: a traversal that jumped into a chain, came back and
\* returned.
JumpedAndReturned ==
    /\ pc = "done" /\ InNamespace /\ AcyclicRules
    /\ Len(evlog) >= 2
    /\ evlog[1].code = NFT_JUMP
    /\ evlog[2].chain # basechain

\* C7 as stated: the evaluations of one traversal, revisits counted, are at
\* most total_visible_rules + jump_stack_capacity.
StepBound == pc # "idle" => nevals <= TotalVisible + NFT_JUMP_STACK_SIZE

\* C7: on a rule set whose jump/goto graph has no cycle and where no chain
\* is the target of two rules, every rule is evaluated at most once: the
\* evaluations are at most total_visible_rules, hence within
\* total_visible_rules + jump_stack_capacity.
ForestStepBound ==
    (pc # "idle" /\ AcyclicRules /\ SingleEntry) =>
        /\ nevals <= TotalVisible
        /\ nevals <= TotalVisible + NFT_JUMP_STACK_SIZE

\* C7, its case: one jump into a chain of MaxWidth rules and back; every
\* visible rule was evaluated once.
EveryRuleOnce ==
    /\ pc = "done" /\ InNamespace /\ AcyclicRules /\ SingleEntry
    /\ nevals = TotalVisible
    /\ nevals = MaxWidth + 1
    /\ evlog[1].code = NFT_JUMP

(***************************************************************************)
(* Properties of the expressions of a rule.                                *)
(***************************************************************************)
\* The rule that the history entry e is about.
RuleOf(e) == rules[e.chain][Pos(e.chain, e.rule)]

\* The last entry of the history of evaluations after the step.
LastEval == evlog'[Len(evlog')]

\* The step evaluates a rule whose first expression is of kind k.
EvalsRuleStarting(k) ==
    /\ pc = "loop" /\ HasNext(chain, rule)
    /\ ~GenmaskBit(NextRule(chain, rule).genmask, gencursor)
    /\ NextRule(chain, rule).exprs[1].ops = k

\* C11: nft_cmp_fast_eval sets the verdict to Break iff (V & M) # K, V being
\* the source register, M the mask of the low len bits and K the immediate;
\* otherwise the verdict stays Continue; no data register changes.
CmpFastContract ==
    [][EvalsRuleStarting("cmp_fast") =>
           LET e == NextRule(chain, rule).exprs[1]
               V == regs.data[e.sreg]
               M == nft_cmp_fast_mask(e.len)
               differs == BitAnd(V, M) # e.data
           IN  /\ BitAnd(V, 2 ^ e.len - 1) = V % (2 ^ e.len)
               /\ (LastEval.exprs[1].code = NFT_BREAK) <=> differs
               /\ ~differs => LastEval.exprs[1].code = NFT_CONTINUE
               /\ differs => Len(LastEval.exprs) = 1 /\ LastEval.code = NFT_BREAK
               /\ LastEval.exprs[1].path = <<"cmp_fast">>
               /\ regs'.data = regs.data]_vars

\* C11, its case: a register of 0x106 compared over 8 bits with 6 matched,
\* and the rule went on.
MaskedCompareMatched ==
    /\ pc = "done" /\ regs.data[1] = 262
    /\ \E i \in 1 .. Len(evlog) :
           /\ RuleOf(evlog[i]).exprs[1] = CmpFastExpr(1, 8, 6)
           /\ evlog[i].exprs[1].code = NFT_CONTINUE
    /\ \E i \in 1 .. Len(evlog) :
           /\ RuleOf(evlog[i]).exprs[1] = CmpFastExpr(1, 16, 262)
           /\ evlog[i].exprs[1].code = NFT_CONTINUE

\* The offsets of the bytes of the packet.
PktOffsets == 0 .. Len(pkt.bytes) - 1

\* C12: nft_payload_fast_eval reads bytes before the tail only; when its
\* check against the tail fails it returns false, has read nothing and
\* leaves the registers as they were, and nft_do_chain calls the generic
\* eval of the same expression; when it succeeds the generic eval is not
\* called.
PayloadFastSafety ==
    /\ [][EvalsRuleStarting("payload_fast") =>
              LET e == NextRule(chain, rule).exprs[1]
                  f == nft_payload_fast_eval(e, regs, pkt)
                  beyond == PayloadPtr(e, pkt) + e.len >= Len(pkt.bytes)
              IN  /\ f.read \subseteq PktOffsets
                  /\ f.ok <=> ~beyond
                  /\ ~f.ok => f.regs = regs /\ f.read = {}
                  /\ f.ok => f.regs.data[e.dreg] = LoadWord(pkt, PayloadPtr(e, pkt), LoadLen(e))
                  /\ LastEval.exprs[1].path =
                         (IF beyond THEN <<"payload_fast", "eval">> ELSE <<"payload_fast">>)
                  /\ LastEval.exprs[1].read = f.read]_vars
    /\ [](\A i \in 1 .. Len(evlog) : \A j \in 1 .. Len(evlog[i].exprs) :
              evlog[i].exprs[j].read \subseteq PktOffsets)

\* C12, its case: a fast load failed at the tail and the generic eval took
\* over, once breaking the rule and once loading the last bytes.
FastLoadFellBack ==
    /\ pc = "done" /\ Len(evlog) = 2
    /\ evlog[1].exprs[1].path = <<"payload_fast", "eval">>
    /\ evlog[1].code = NFT_BREAK
    /\ evlog[2].exprs[1].path = <<"payload_fast", "eval">>
    /\ evlog[2].exprs[1].code = NFT_CONTINUE
    /\ Len(evlog[2].exprs) = 2

\* The base chain is [fast-compare(reg 1, 8 bits, 6)], [set-verdict(Drop)].
TwoRuleScenario ==
    /\ Len(rules[basechain]) = 2
    /\ rules[basechain][1].exprs = <<CmpFastExpr(1, 8, 6)>>
    /\ rules[basechain][2].exprs = <<GenericExpr(NF_DROP, NULL)>>
    /\ policy = NF_ACCEPT

\* The base chain is the one rule [fast-compare(reg 1, 8 bits, 6),
\* set-verdict(Drop)].
OneRuleScenario ==
    /\ Len(rules[basechain]) = 1
    /\ rules[basechain][1].exprs = <<CmpFastExpr(1, 8, 6), GenericExpr(NF_DROP, NULL)>>
    /\ policy = NF_ACCEPT

\* C13 as stated: in the two-rule scenario a packet with register 6 is
\* dropped and a packet with register 0x11 is accepted.
TwoRulesAcceptMismatch ==
    (pc = "done" /\ TwoRuleScenario) =>
        /\ regs.data[1] = 6 => retval = NF_DROP
        /\ regs.data[1] = 17 => retval = NF_ACCEPT

\* C13: in the two-rule scenario both packets are dropped: with register
\* 0x11 the first rule breaks, which ends that rule only, and the second
\* rule fires; it is with compare and verdict in one rule that register 6
\* is dropped and register 0x11 accepted by the policy.
TwoRulesDropBoth ==
    /\ (pc = "done" /\ TwoRuleScenario) =>
           /\ regs.data[1] \in {6, 17} => retval = NF_DROP
           /\ nevals = 2
    /\ (pc = "done" /\ OneRuleScenario) =>
           /\ regs.data[1] = 6 => retval = NF_DROP
           /\ regs.data[1] = 17 => retval = NF_ACCEPT

\* C13, its case: register 0x11, the first rule broke, the second dropped.
MismatchDropped ==
    /\ pc = "done" /\ TwoRuleScenario /\ regs.data[1] = 17
    /\ Len(evlog) = 2
    /\ evlog[1].code = NFT_BREAK /\ evlog[2].code = NF_DROP
    /\ retval = NF_DROP

\* C20: the expressions of a rule are evaluated in list order from the
\* first, each once; all but the last evaluated left the verdict Continue;
\* after one leaves another verdict none is evaluated, so that the verdict
\* of the rule is that one's and a later load changes no register.
EarlyStop ==
    /\ [](\A i \in 1 .. Len(evlog) :
              LET seen == evlog[i].exprs
                  n == Len(seen)
              IN  /\ n >= 1 /\ n <= Len(RuleOf(evlog[i]).exprs)
                  /\ \A j \in 1 .. n : seen[j].index = j
                  /\ \A j \in 1 .. n - 1 : seen[j].code = NFT_CONTINUE
                  /\ seen[n].code = evlog[i].code
                  /\ seen[n].code = NFT_CONTINUE => n = Len(RuleOf(evlog[i]).exprs))
    /\ [][(EvalsRuleStarting("generic")
             /\ NextRule(chain, rule).exprs[1].code # NFT_CONTINUE) =>
              /\ regs'.data = regs.data
              /\ Len(LastEval.exprs) = 1]_vars

\* C20, its case: a compare broke its rule before the verdict expression
\* after it, and a verdict expression ended its rule before the load after
\* it.
StoppedBeforeLater ==
    /\ pc = "done" /\ Len(evlog) = 2
    /\ Len(RuleOf(evlog[1]).exprs) = 2 /\ Len(evlog[1].exprs) = 1
    /\ evlog[1].code = NFT_BREAK
    /\ Len(RuleOf(evlog[2]).exprs) = 2 /\ Len(evlog[2].exprs) = 1
    /\ evlog[2].code = NF_ACCEPT
    /\ regs.data[1] = 17 /\ pkt.bytes[1] = 6

(***************************************************************************)
(* Statistics and trace.                                                   *)
(***************************************************************************)
\* The step ends the traversal with the policy of the base chain.
EndsByPolicy ==
    pc = "verdict" /\ pc' = "done" /\ FallsOut(regs.verdict.code)

\* C15: the step that ends a traversal by the policy of the base chain adds
\* 1 to the packet counter and the length of the packet to the byte counter;
\* no other step, the return of a terminal verdict and the namespace guard
\* among them, changes the counters; so a finished traversal has counted
\* the packet once if it ended by the policy and not at all otherwise.
StatsOnPolicyOnly ==
    /\ [][IF EndsByPolicy
          THEN /\ stats'.pkts = stats.pkts + 1
               /\ stats'.bytes = stats.bytes + pkt.len
               /\ retval' = policy
          ELSE stats' = stats]_vars
    /\ [](pc = "done" =>
              stats = (IF InNamespace /\ ~IsTerminal(regs.verdict.code)
                       THEN [pkts |-> 1, bytes |-> pkt.len]
                       ELSE [pkts |-> 0, bytes |-> 0]))

\* C15, its case: a traversal that evaluated a rule ended by the policy and
\* counted the packet and its bytes once.
PolicyCounted ==
    /\ pc = "done" /\ InNamespace /\ nevals > 0
    /\ retval = policy /\ ~IsTerminal(regs.verdict.code)
    /\ pkt.len > 1
    /\ stats = [pkts |-> 1, bytes |-> pkt.len]

\* The packet of the traversal is traced: the static key is on and the
\* packet is marked.
Traced == InNamespace /\ nft_trace_enabled /\ pkt.nf_trace

\* The number of events of the given type in the log.
CountType(log, type) == Cardinality({ i \in 1 .. Len(log) : log[i].type = type })

\* The number of evaluated rules that are traced as rules: those that ran
\* to their end with Continue and those that left a terminal verdict, a
\* Jump or a Goto.
CountRuleTraced ==
    Cardinality({ i \in 1 .. Len(evlog) :
                     \/ evlog[i].code \in {NFT_CONTINUE, NFT_JUMP, NFT_GOTO}
                     \/ IsTerminal(evlog[i].code) })

\* C17 as stated: a traced traversal emits one event for every rule it
\* evaluated and one policy event.
OneEventPerRulePlusPolicy ==
    (pc = "done" /\ Traced /\ ~lost) => Len(tracelog) = nevals + 1

\* C17: a traced traversal emits one rule event for every rule that ran to
\* its end with Continue or left a terminal verdict, a Jump or a Goto, and
\* none for a rule that ended in Break; one return event each time it leaves
\* a chain at the end of its list or on Return; and one policy event, the
\* last of all, only when it ends with the policy of the base chain.
TraceEvents ==
    /\ [][(Traced /\ ~lost') =>
              /\ CountType(tracelog', NFT_TRACETYPE_RETURN) =
                     CountType(tracelog, NFT_TRACETYPE_RETURN)
                     + (IF pc = "verdict" /\ FallsOut(regs.verdict.code)
                           /\ regs.verdict.code \in {NFT_CONTINUE, NFT_RETURN}
                        THEN 1 ELSE 0)
              /\ CountType(tracelog', NFT_TRACETYPE_POLICY) =
                     (IF EndsByPolicy THEN 1 ELSE 0)
              /\ EndsByPolicy => tracelog'[Len(tracelog')].type = NFT_TRACETYPE_POLICY]_vars
    /\ []((Traced /\ ~lost /\ pc \in {"loop", "done"}) =>
              CountType(tracelog, NFT_TRACETYPE_RULE) = CountRuleTraced)
    /\ []((pc = "done" /\ Traced /\ ~lost) =>
              CountType(tracelog, NFT_TRACETYPE_POLICY) =
                  (IF IsTerminal(regs.verdict.code) THEN 0 ELSE 1))

\* C17, its case: a traced traversal evaluated two rules, the first ended in
\* Break, the second ran to its end, and it ended by the policy with three
\* events: rule, return, policy.
BreakNotTraced ==
    /\ pc = "done" /\ Traced /\ ~lost
    /\ Len(evlog) = 2
    /\ evlog[1].code = NFT_BREAK /\ evlog[2].code = NFT_CONTINUE
    /\ Len(tracelog) = 3
    /\ tracelog[1].type = NFT_TRACETYPE_RULE /\ tracelog[1].rule = evlog[2].rule
    /\ tracelog[2].type = NFT_TRACETYPE_RETURN
    /\ tracelog[3].type = NFT_TRACETYPE_POLICY

\* The second of two calls for one packet has ended, with the static key as
\* it was in the first.
SecondCallDone ==
    pc = "done" /\ prev.ran /\ ~lost /\ nft_trace_enabled = prev.trace

\* C14: two traversals of one packet against one rule set, generation,
\* policy and tracing flag return the same disposition and emit the same
\* trace events.
Determinism ==
    SecondCallDone => retval = prev.retval /\ tracelog = prev.tracelog

\* What holds of two calls: they agree when the stack held the same words
\* where the data registers lie, or when every compare of the rule set
\* reads a register that a load of its rule has written.
ReadsWritten(rs) ==
    \A c \in Chains : \A i \in 1 .. Len(rs[c]) :
        LET l == rs[c][i].exprs
        IN  \A j \in 1 .. Len(l) :
                l[j].ops = "cmp_fast" =>
                    \E k \in 1 .. j - 1 : l[k].ops = "payload_fast" /\ l[k].dreg = l[j].sreg
DeterminismOfWrittenRegisters ==
    (SecondCallDone /\ (prev.data = prev.now \/ ReadsWritten(rules))) =>
        retval = prev.retval /\ tracelog = prev.tracelog

\* C18: with the static key off the traversal emits no trace event and
\* leaves the rule, chain and type of the trace info as they were; and the
\* disposition is the one of the traversal of the same packet, from the
\* same registers, with the static key on.
TracingOff ==
    /\ [](~nft_trace_enabled =>
              /\ tracelog = <<>>
              /\ info.rule = NoInfo.rule
              /\ info.chain = NoInfo.chain
              /\ info.type = NoInfo.type)
    /\ []((pc = "done" /\ prev.ran /\ nft_trace_enabled # prev.trace
              /\ prev.data = prev.now) =>
              retval = prev.retval)

\* C18, its case: the first call traced the packet, the second, with the
\* static key off, evaluated the rules again and returned the same
\* disposition without an event.
UntracedSameDisposition ==
    /\ pc = "done" /\ prev.ran /\ pkt.nf_trace
    /\ prev.trace /\ Len(prev.tracelog) >= 2
    /\ ~nft_trace_enabled
    /\ prev.data = prev.now
    /\ nevals = 2
    /\ tracelog = <<>> /\ info.rule = NULL
    /\ retval = NF_DROP /\ prev.retval = NF_DROP

\* C19: nft_do_chain reads the generation of the packet's namespace when it
\* is entered and at no other step, whatever the control plane does to the
\* generation meanwhile; in every chain, the base chain, a chain reached by
\* NFT_JUMP or NFT_GOTO and a chain resumed after a return, the next rule
\* is evaluated iff its bit for the generation read at entry is clear.
EpochSampledOnce ==
    /\ [][(pc = "idle" /\ pc' # "idle") => gencursor' = nft_gencursor[pkt'.net]]_vars
    /\ [][pc # "idle" => gencursor' = gencursor]_vars
    /\ [][(pc = "loop" /\ HasNext(chain, rule) /\ rule' # rule) =>
              /\ rule' = NextRule(chain, rule).handle
              /\ (nevals' = nevals + 1) <=>
                     ~GenmaskBit(NextRule(chain, rule).genmask, gencursor)
              /\ (nevals' = nevals) <=>
                     GenmaskBit(NextRule(chain, rule).genmask, gencursor)]_vars

\* C19, its case: the generation was flipped after the traversal read it,
\* and the traversal, now in the chain it jumped or went to, is about to
\* decide on a rule that the value it read sees and the new generation does
\* not.
StaleEpochInTarget ==
    /\ pc = "loop" /\ InNamespace
    /\ chain = 2 /\ HasNext(chain, rule)
    /\ txn = "committed"
    /\ gencursor # nft_gencursor[chain_net]
    /\ ~GenmaskBit(NextRule(chain, rule).genmask, gencursor)
    /\ GenmaskBit(NextRule(chain, rule).genmask, nft_gencursor[chain_net])

\* The call on this cpu is inside nft_do_chain.
Unfinished == pc \in {"loop", "verdict"}

\* C16: with calls of nft_do_chain on several cpus and a control plane that
\* is idle, in a transaction or past the flip of the generation, the call
\* on any cpu that has not returned can take its next step (and one that
\* has not started can start); a step of nft_do_chain changes neither the
\* state of the control plane's transaction nor the call of another cpu.
NonBlocking ==
    /\ [](Unfinished => ENABLED NextTraversal)
    /\ [](pc = "idle" => ENABLED (\E p \in ParPackets : nft_do_chain_entry(p)))
    /\ [][(Unfinished /\ percpu' = percpu /\ (pc' # pc \/ rule' # rule)) =>
              /\ txn' = txn
              /\ rules' = rules
              /\ nft_gencursor' = nft_gencursor]_vars

\* C16, its case: the control plane is in a transaction and has linked a
\* rule; the call on this cpu and the call on another cpu are both inside
\* nft_do_chain, at different places.
EvaluatorsAmidTransaction ==
    /\ txn = "open" /\ TotalRules(rules) > 3
    /\ pc = "loop" /\ HasNext(chain, rule)
    /\ percpu[1].pc = "verdict"
    /\ percpu[1].chain = 2

(***************************************************************************)
(* Properties of nested chains.                                            *)
(***************************************************************************)
\* The step evaluates the next rule of the chain.
EvaluatesNext ==
    /\ pc = "loop" /\ HasNext(chain, rule)
    /\ ~RuleInactive(NextRule(chain, rule), gencursor)

\* The codes of the rules evaluated so far, in order.
EvalCodes == [i \in 1 .. Len(evlog) |-> evlog[i].code]
EvalChains == [i \in 1 .. Len(evlog) |-> evlog[i].chain]

\* C21: whenever the traversal is about to look at the next rule of a
\* chain, at the start of the base chain, after a rule that ended in Break,
\* in a chain entered by NFT_JUMP or NFT_GOTO and in a chain resumed after a
\* return, the verdict code is NFT_CONTINUE; a rule that ends in Break
\* leaves the chain, the stack and its depth as they were and the traversal
\* at that rule, in the loop.
VerdictReset ==
    /\ [](pc = "loop" => regs.verdict.code = NFT_CONTINUE)
    /\ [][(EvaluatesNext /\ RuleVerdict(NextRule(chain, rule)).code = NFT_BREAK) =>
              /\ pc' = "loop"
              /\ chain' = chain
              /\ rule' = NextRule(chain, rule).handle
              /\ stackptr' = stackptr
              /\ jumpstack' = jumpstack]_vars
    /\ [][(EvaluatesNext /\ pc' = "verdict") =>
              regs'.verdict.code = RuleVerdict(NextRule(chain, rule)).code]_vars

\* C21, its case: the base chain jumped, the second chain went to the last,
\* whose first rule ended in Break and whose second ran to its end; the
\* base chain was resumed and its second rule ran to its end.
ResetAtEveryEntry ==
    /\ pc = "done"
    /\ EvalCodes = <<NFT_JUMP, NFT_GOTO, NFT_BREAK, NFT_CONTINUE, NFT_CONTINUE>>
    /\ EvalChains = <<basechain, 2, NChains + 1, NChains + 1, basechain>>
    /\ retval = policy

\* C22: NFT_JUMP stores the chain, the jumping rule and the rule number in
\* the frame at the stack pointer and raises the pointer by one; NFT_GOTO
\* changes neither; both go to the head of the target's list with rule
\* number 0; a Return or an end of list with frames on the stack lowers the
\* pointer by one and takes chain, rule and rule number from the frame at
\* it; every other step leaves the pointer and the frames as they were.
JumpStackFrames ==
    [][LET code == regs.verdict.code
           top == jumpstack[stackptr - 1]
       IN  IF pc = "verdict" /\ code = NFT_JUMP /\ stackptr < NFT_JUMP_STACK_SIZE
           THEN /\ stackptr' = stackptr + 1
                /\ jumpstack' = [jumpstack EXCEPT ![stackptr] =
                                     [chain |-> chain, rule |-> rule, rulenum |-> rulenum]]
                /\ chain' = regs.verdict.chain /\ rule' = HEAD /\ rulenum' = 0
           ELSE IF pc = "verdict" /\ code = NFT_GOTO
           THEN /\ stackptr' = stackptr /\ jumpstack' = jumpstack
                /\ chain' = regs.verdict.chain /\ rule' = HEAD /\ rulenum' = 0
           ELSE IF pc = "verdict" /\ FallsOut(code) /\ stackptr > 0
           THEN /\ stackptr' = stackptr - 1 /\ jumpstack' = jumpstack
                /\ chain' = top.chain /\ rule' = top.rule /\ rulenum' = top.rulenum
                /\ pc' = "loop"
           ELSE stackptr' = stackptr /\ jumpstack' = jumpstack]_vars

\* C22, its case: two jumps deep, then back in the second chain after the
\* last chain returned: the frame of the base chain is on the stack, the
\* second chain goes on behind its jumping rule with its rule number.
PoppedOneOfTwo ==
    /\ pc = "loop" /\ stackptr = 1
    /\ Len(rules[basechain]) = 2 /\ Len(rules[2]) = 2
    /\ chain = 2 /\ rule = rules[2][2].handle /\ rulenum = 2
    /\ jumpstack[0] = [chain |-> basechain, rule |-> rules[basechain][2].handle,
                       rulenum |-> 2]
    /\ jumpstack[1] = [chain |-> 2, rule |-> rules[2][2].handle, rulenum |-> 2]
    /\ EvalCodes = <<NFT_CONTINUE, NFT_JUMP, NFT_CONTINUE, NFT_JUMP, NFT_RETURN>>

\* C23: a Return or an end of list with no frame on the stack, in the base
\* chain or in a chain that NFT_GOTO led to, ends the traversal: it returns
\* the policy of the base chain, counts the packet in the base chain's
\* counters of this cpu and, for a traced packet, emits as its last event
\* the policy event of the base chain, with no rule and rule number -1.
EmptyStackFinish ==
    [][(pc = "verdict" /\ FallsOut(regs.verdict.code) /\ stackptr = 0) =>
           /\ pc' = "done"
           /\ retval' = policy
           /\ stats' = [pkts |-> stats.pkts + 1, bytes |-> stats.bytes + pkt.len]
           /\ (Traced /\ ~lost') =>
                  tracelog'[Len(tracelog')] =
                      [chain |-> basechain, rule |-> NULL, rulenum |-> -1,
                       type |-> NFT_TRACETYPE_POLICY]]_vars

\* C23, its case: the traversal went from the base chain to the second
\* chain and from there to the last, whose list it ran off with no frame on
\* the stack; it returned the policy Drop of the base chain.
FinishedInGotoTarget ==
    /\ pc = "done" /\ stackptr = 0
    /\ chain = NChains + 1
    /\ EvalCodes = <<NFT_GOTO, NFT_GOTO, NFT_BREAK, NFT_CONTINUE>>
    /\ policy = NF_DROP /\ retval = NF_DROP
    /\ stats = [pkts |-> 1, bytes |-> pkt.len]
    /\ tracelog[Len(tracelog)].chain = basechain
    /\ tracelog[Len(tracelog)].type = NFT_TRACETYPE_POLICY
    /\ tracelog[Len(tracelog) - 1].chain = NChains + 1
    /\ tracelog[Len(tracelog) - 1].type = NFT_TRACETYPE_RETURN

\* The last rule evaluated in the base chain, as an index of the history.
LastBase ==
    CHOOSE i \in 1 .. Len(evlog) :
        /\ evlog[i].chain = basechain
        /\ \A j \in i + 1 .. Len(evlog) : evlog[j].chain # basechain

\* The base chain has jumped, the chain it jumped to has gone to the last
\* chain by NFT_GOTO, and nothing has jumped since.
GoneFromJumped ==
    /\ \E i \in 1 .. Len(evlog) : evlog[i].chain = basechain
    /\ evlog[LastBase].code = NFT_JUMP
    /\ \A j \in LastBase + 1 .. Len(evlog) : evlog[j].code # NFT_JUMP
    /\ \E j \in LastBase + 1 .. Len(evlog) :
           evlog[j].chain = 2 /\ evlog[j].code = NFT_GOTO
    /\ chain = NChains + 1

\* C24: when the base chain has jumped to a chain that has gone on to a
\* third by NFT_GOTO, a Return or an end of list in the third chain pops
\* the frame of the base chain's jump and resumes the base chain behind its
\* jumping rule; and no rule that follows a rule with NFT_GOTO in its chain
\* is evaluated after it.
GotoTailCall ==
    /\ [][(pc = "verdict" /\ FallsOut(regs.verdict.code) /\ GoneFromJumped) =>
              /\ pc' = "loop"
              /\ chain' = basechain
              /\ rule' = evlog[LastBase].rule
              /\ stackptr' = 0]_vars
    /\ [](\A i \in 1 .. Len(evlog) : \A j \in i + 1 .. Len(evlog) :
              (evlog[i].code = NFT_GOTO /\ evlog[j].chain = evlog[i].chain) =>
                  Pos(evlog[j].chain, evlog[j].rule) <= Pos(evlog[i].chain, evlog[i].rule))

\* C24, its case: the base chain jumped to the second chain, whose first
\* rule of two went to the last chain, which returned; the second rule of
\* the base chain was evaluated next, the second rule of the second chain
\* never.
ResumedPastGoto ==
    /\ pc = "done"
    /\ Len(rules[2]) = 2
    /\ EvalCodes = <<NFT_JUMP, NFT_GOTO, NFT_RETURN, NFT_CONTINUE>>
    /\ EvalChains = <<basechain, 2, NChains + 1, basechain>>
    /\ evlog[4].rule = rules[basechain][2].handle

\* The 1-based index of the rule with handle h among the rules of chain c
\* that the traversal sees.
VisibleIndex(c, h) ==
    Cardinality({ i \in 1 .. Pos(c, h) : ~GenmaskBit(rules[c][i].genmask, gencursor) })

\* The events of type rule, and the evaluated rules that are traced as
\* rules, both in order.
RuleEvents ==
    LET IsRule(e) == e.type = NFT_TRACETYPE_RULE
    IN  SelectSeq(tracelog, IsRule)
TracedEvals ==
    LET IsTraced(e) == e.code \in {NFT_CONTINUE, NFT_JUMP, NFT_GOTO} \/ IsTerminal(e.code)
    IN  SelectSeq(evlog, IsTraced)

\* The log after the step is the log before it followed by the events es.
Emits(es) == tracelog' = tracelog \o es

\* The event of the given type for the current rule of the current chain.
EventHere(n, type) == [chain |-> chain, rule |-> rule, rulenum |-> n, type |-> type]

\* The policy event of the base chain.
PolicyEvent == [chain |-> basechain, rule |-> NULL, rulenum |-> -1,
                type |-> NFT_TRACETYPE_POLICY]

\* C25: for a traced packet, the rule events are those of the rules that
\* ran to their end with Continue or left a terminal verdict, a Jump or a
\* Goto, one each and in the order of evaluation, the event of a Jump or
\* Goto being emitted by the step that leaves for the target; each carries
\* the index of its rule among the rules of its chain that the traversal
\* sees; a Return or an end of list emits one return event of the chain
\* left; the policy event is emitted only by the step that ends the
\* traversal with the policy, after the return event of that step.
TraceOrderAndNumbers ==
    /\ []((Traced /\ ~lost /\ pc \in {"loop", "done"}) =>
              /\ Len(RuleEvents) = Len(TracedEvals)
              /\ \A k \in 1 .. Len(RuleEvents) :
                     /\ RuleEvents[k].chain = TracedEvals[k].chain
                     /\ RuleEvents[k].rule = TracedEvals[k].rule
                     /\ RuleEvents[k].rulenum =
                            VisibleIndex(TracedEvals[k].chain, TracedEvals[k].rule))
    /\ [][(Traced /\ ~lost' /\ pc = "verdict") =>
              LET code == regs.verdict.code
                  ret == IF code = NFT_CONTINUE
                         THEN <<EventHere(rulenum + 1, NFT_TRACETYPE_RETURN)>>
                         ELSE IF code = NFT_RETURN
                         THEN <<EventHere(rulenum, NFT_TRACETYPE_RETURN)>>
                         ELSE <<>>
              IN  IF IsTerminal(code) \/ code \in {NFT_JUMP, NFT_GOTO}
                  THEN Emits(<<EventHere(rulenum, NFT_TRACETYPE_RULE)>>)
                  ELSE IF stackptr > 0
                  THEN Emits(ret)
                  ELSE Emits(ret \o <<PolicyEvent>>)]_vars
    /\ [][(Traced /\ ~lost' /\ pc = "loop") =>
              \/ tracelog' = tracelog
              \/ /\ EvaluatesNext /\ pc' = "loop"
                 /\ Emits(<<[chain |-> chain, rule |-> NextRule(chain, rule).handle,
                             rulenum |-> rulenum + 1, type |-> NFT_TRACETYPE_RULE]>>)]_vars

\* C25, its case: the base chain jumped, the second chain went to the last,
\* whose first rule is not active and whose second ran to its end as rule
\* number 1; the end of that list resumed the base chain, whose second rule
\* ran to its end as rule number 2; the traversal ended by the policy.
NumberedAcrossChains ==
    /\ pc = "done" /\ Traced /\ Len(tracelog) = 7
    /\ [i \in 1 .. 7 |-> tracelog[i].type] =
           <<NFT_TRACETYPE_RULE, NFT_TRACETYPE_RULE, NFT_TRACETYPE_RULE,
             NFT_TRACETYPE_RETURN, NFT_TRACETYPE_RULE, NFT_TRACETYPE_RETURN,
             NFT_TRACETYPE_POLICY>>
    /\ [i \in 1 .. 7 |-> tracelog[i].chain] =
           <<basechain, 2, NChains + 1, NChains + 1, basechain, basechain, basechain>>
    /\ [i \in 1 .. 7 |-> tracelog[i].rulenum] = <<1, 1, 1, 2, 2, 3, -1>>
    /\ Len(rules[NChains + 1]) = 2
    /\ tracelog[3].rule = rules[NChains + 1][2].handle

(***************************************************************************)
(* Properties of the fast paths and of the dispatch.                       *)
(***************************************************************************)
\* C26: nft_payload_fast_eval returns true, and has written the destination
\* register, exactly when the bytes asked for lie within the packet, that
\* is when offset + len <= L; a load that ends with the last byte of the
\* packet succeeds.
PayloadFastBoundary ==
    [][EvalsRuleStarting("payload_fast") =>
           LET e == NextRule(chain, rule).exprs[1]
               f == nft_payload_fast_eval(e, regs, pkt)
               inside == PayloadPtr(e, pkt) + e.len <= Len(pkt.bytes)
           IN  /\ f.ok <=> inside
               /\ f.ok => f.regs.data[e.dreg] = LoadWord(pkt, PayloadPtr(e, pkt), LoadLen(e))
               /\ LastEval.exprs[1].path =
                      (IF inside THEN <<"payload_fast">> ELSE <<"payload_fast", "eval">>)]_vars

\* The number of calls of the function named f in the path p.
Calls(p, f) == Cardinality({ i \in 1 .. Len(p) : p[i] = f })

\* C27: each expression visited is evaluated by one evaluator: a fast
\* compare by nft_cmp_fast_eval and never by the generic eval, a fast load
\* by nft_payload_fast_eval alone when it succeeds and by the generic eval
\* once when it fails, every other expression by its generic eval once; and
\* the expressions visited are visited once each, in order.
ExprDispatch ==
    [][nft_rule_eval =>
           LET exprs == NextRule(chain, rule).exprs
               seen == LastEval.exprs
           IN  \A k \in 1 .. Len(seen) :
                   LET e == exprs[seen[k].index]
                       p == seen[k].path
                       fell == PayloadPtr(e, pkt) + e.len >= Len(pkt.bytes)
                   IN  /\ seen[k].index = k
                       /\ Calls(p, "cmp_fast") = (IF e.ops = "cmp_fast" THEN 1 ELSE 0)
                       /\ Calls(p, "payload_fast") = (IF e.ops = "payload_fast" THEN 1 ELSE 0)
                       /\ Calls(p, "eval") =
                              (IF e.ops = "cmp_fast" THEN 0
                               ELSE IF e.ops = "payload_fast" /\ ~fell THEN 0
                               ELSE 1)]_vars

\* Two rules were evaluated, the first by a fast load that fell back to the
\* generic eval and then a fast compare, the second by a generic eval alone.
AllThreeEvaluators ==
    /\ Len(evlog) = 2
    /\ Len(evlog[1].exprs) = 2
    /\ evlog[1].exprs[1].path = <<"payload_fast", "eval">>
    /\ evlog[1].exprs[2].path = <<"cmp_fast">>
    /\ evlog[2].exprs[1].path = <<"eval">>

(***************************************************************************)
(* Properties of the counters of several cpus.                             *)
(***************************************************************************)
\* The calls that have returned on the cpu of the context by the policy of
\* the base chain, and the lengths of their packets.
PolicyCalls(ctx) == IF ctx.pc = "done" THEN Tallied(ctx) ELSE ctx.tally

\* C28: however the calls of nft_do_chain on the cpus interleave, the packet
\* counter of each cpu is the number of the calls on that cpu that ended by
\* the policy of the base chain and its byte counter is the sum of the
\* lengths of their packets; the counters of another cpu change only when
\* that cpu takes over, never by a step of this cpu's call.
NoLostStats ==
    /\ [](\A ctx \in {LocalCtx} \cup { percpu[i] : i \in DOMAIN percpu } :
              /\ ctx.stats.pkts = PolicyCalls(ctx).pkts
              /\ ctx.stats.bytes = PolicyCalls(ctx).bytes)
    /\ [][\A i \in DOMAIN percpu :
              percpu'[i].stats # percpu[i].stats =>
                  /\ percpu'[i].stats = stats
                  /\ stats' = percpu[i].stats
                  /\ pc' = percpu[i].pc]_vars

\* This cpu has counted two packets of different lengths, the second just
\* now, while the call on another cpu, which has counted nothing yet, is
\* inside nft_do_chain and about to end by the policy.
CountedBesideRunningCall ==
    /\ pc = "done" /\ ByPolicy(LocalCtx)
    /\ tally.pkts = 1
    /\ stats = [pkts |-> 2, bytes |-> 1 + MaxPktLen]
    /\ percpu[1].pc = "verdict" /\ FallsOut(percpu[1].regs.verdict.code)
    /\ percpu[1].stats.pkts = 0

(***************************************************************************)
(* Properties of the value returned.                                       *)
(***************************************************************************)
\* The low 8 bits of a verdict code, of a negative code as two's complement.
LowByte(code) == code % 256

\* C29: the verdict left by a rule ends the traversal there, without the
\* policy, exactly when its low 8 bits are those of Accept, Drop or Queue,
\* and nft_do_chain then returns the whole code, upper bits included, not
\* its low byte; the low byte of none of Continue, Break, Jump, Goto and
\* Return is that of Accept, Drop or Queue.
UnmaskedVerdict ==
    /\ [][pc = "verdict" =>
              /\ (pc' = "done" /\ stats' = stats)
                     <=> LowByte(regs.verdict.code) \in {NF_ACCEPT, NF_DROP, NF_QUEUE}
              /\ (pc' = "done" /\ stats' = stats) =>
                     /\ retval' = regs.verdict.code
                     /\ retval' \div 256 = regs.verdict.code \div 256]_vars
    /\ [](\A c \in {NFT_CONTINUE, NFT_BREAK, NFT_JUMP, NFT_GOTO, NFT_RETURN} :
              LowByte(c) \notin {NF_ACCEPT, NF_DROP, NF_QUEUE})

\* A rule left Queue with queue number 1; the value returned holds the
\* queue number and is not NF_QUEUE.
QueueNumberReturned ==
    /\ pc = "done" /\ InNamespace
    /\ regs.verdict.code = NF_QUEUE_NR1
    /\ retval = NF_QUEUE_NR1
    /\ retval # NF_QUEUE /\ LowByte(retval) = NF_QUEUE

(***************************************************************************)
(* Properties of the static key switched during a traversal.               *)
(***************************************************************************)
\* C30: a call of nft_do_chain that found the static key off when it
\* started has info.trace false from then on, whatever happens to the key
\* while it runs, and emits no trace event; info.trace is set only at the
\* start and only with the key on, and every event is emitted by a call
\* whose info.trace was set at its start, for a marked packet, at a step
\* that finds the key on.
ToggledMidTraversal ==
    /\ [][(pc = "idle" /\ pc' = "loop") => info'.trace = nft_trace_enabled]_vars
    /\ [][pc # "idle" => info'.trace = info.trace]_vars
    /\ [][(pc # "idle" /\ ~info.trace) => tracelog' = tracelog]_vars
    /\ [](~info.trace => tracelog = <<>>)
    /\ [][tracelog' # tracelog => info.trace /\ pkt.nf_trace /\ nft_trace_enabled]_vars

\* The key was off when the call for a marked packet started and was
\* switched on while it ran: trace calls were made with the key on (they
\* left the rule in info.rule), two rules were evaluated and the traversal
\* ended, with no event.
EnabledTooLate ==
    /\ pc = "done" /\ InNamespace /\ pkt.nf_trace
    /\ nft_trace_enabled
    /\ ~info.trace
    /\ info.rule # NULL
    /\ nevals >= 2
    /\ tracelog = <<>>

(***************************************************************************)
(* Properties of request-based dm.                                         *)
(***************************************************************************)
\* The driver has started request i and has neither ended nor requeued it.
InFlight(i) == reqs[i].st \in {"started", "dispatched", "target", "completing"}

\* C31: on every path md->pending[rw] is the number of the requests of that
\* direction that dm_start_request started and that were neither ended nor
\* requeued since: each start is matched by one rq_completed, when the
\* request is ended or requeued and not before; pending is never negative;
\* a call of dm_mq_queue_rq that starts a request and has it requeued leaves
\* pending as it found it; a request refused because the target is busy is
\* not started and leaves pending alone.
PendingAccounting ==
    /\ [](\A d \in Dirs :
              /\ pending[d] = Cardinality({ i \in Rqs : reqs[i].dir = d /\ InFlight(i) })
              /\ pending[d] >= 0)
    /\ [](\A i \in Rqs :
              reqs[i].starts = reqs[i].completions + (IF InFlight(i) THEN 1 ELSE 0))
    /\ [][\A i \in Rqs :
              /\ (reqs'[i].requeues > reqs[i].requeues /\ reqs'[i].starts > reqs[i].starts)
                     => pending' = pending
              /\ (reqs'[i].attempt.refused /\ ~reqs[i].attempt.refused)
                     => /\ pending' = pending
                        /\ reqs'[i].starts = reqs[i].starts
                        /\ reqs'[i].st = "queued"]_vars

\* Request 1 was started and requeued by map_request after a delay, and
\* pending of its direction is 0 again, while request 2 is in flight as a
\* dispatched clone and counted.
RequeuedAndBalanced ==
    /\ reqs[1].st = "queued" /\ reqs[1].requeues = 1 /\ reqs[1].starts = 1
    /\ reqs[1].attempt.requeued
    /\ pending[reqs[1].dir] = 0
    /\ reqs[2].st = "dispatched"
    /\ pending[reqs[2].dir] = 1

\* The step is a call of map_request for request i, with what its caller
\* does on the return value.
MapStep(i) ==
    /\ reqs'[i].attempt.made
    /\ reqs'[i].attempt # reqs[i].attempt \/ reqs'[i].starts # reqs[i].starts

\* C32 as stated: map_request returns DM_MAPIO_REQUEUE exactly when it has
\* neither requeued nor completed the original request itself.
ReturnsRequeueExactly ==
    \A i \in Rqs :
        reqs[i].attempt.made =>
            (reqs[i].attempt.ret = DM_MAPIO_REQUEUE
                 <=> (~reqs[i].attempt.requeued /\ ~reqs[i].attempt.completed))

\* C32: map_request returns DM_MAPIO_REQUEUE exactly when it has neither
\* requeued nor completed the original request itself nor handed it on (to
\* the target with DM_MAPIO_SUBMITTED, to the lower device as a dispatched
\* clone); per call of map_request the original request is requeued at most
\* once, inside map_request with a delay or by the caller, never both; and
\* a request that map_request killed with an error below 0 is not requeued.
MapRequestContract ==
    /\ [](\A i \in Rqs :
              /\ reqs[i].attempt.made =>
                     /\ reqs[i].attempt.ret = DM_MAPIO_REQUEUE
                            <=> /\ ~reqs[i].attempt.requeued
                                /\ ~reqs[i].attempt.completed
                                /\ ~reqs[i].attempt.handed
                     /\ reqs[i].attempt.by_caller <=> reqs[i].attempt.ret = DM_MAPIO_REQUEUE
                     /\ reqs[i].attempt.requeued <=> reqs[i].attempt.ret = DM_MAPIO_DELAY_REQUEUE
                     /\ ~(reqs[i].attempt.requeued /\ reqs[i].attempt.by_caller)
                     /\ reqs[i].attempt.ret < 0 => reqs[i].attempt.completed /\ reqs[i].failed
              /\ reqs[i].failed => reqs[i].st \in {"completing", "ended"})
    /\ [][\A i \in Rqs :
              MapStep(i) =>
                  /\ reqs'[i].requeues = reqs[i].requeues +
                         (IF reqs'[i].attempt.requeued \/ reqs'[i].attempt.by_caller
                          THEN 1 ELSE 0)
                  /\ reqs'[i].attempt.completed =>
                         reqs'[i].st = "completing"]_vars

\* On the blk-mq path the clone of request 1 was refused by the lower
\* device: map_request released it and returned DM_MAPIO_REQUEUE, and
\* dm_mq_queue_rq left the request to blk-mq, once.
RequeuedByCallerOnce ==
    /\ q_mq_ops
    /\ reqs[1].attempt.made /\ reqs[1].attempt.ret = DM_MAPIO_REQUEUE
    /\ reqs[1].attempt.by_caller /\ ~reqs[1].attempt.requeued
    /\ reqs[1].obtained = 1 /\ reqs[1].released = 1
    /\ reqs[1].requeues = 1 /\ reqs[1].st = "queued"

\* C33: on the .request_fn path no request is started (no pending[rw] is
\* incremented) from the moment the queue is marked stopped until
\* dm_start_queue: dm_old_request_fn tests the flag and increments under
\* the one hold of the queue lock that dm_old_stop_queue takes too.
NoStartWhileStopped ==
    [][(~q_mq_ops /\ q_stopped) =>
           /\ \A d \in Dirs : pending'[d] <= pending[d]
           /\ \A i \in Rqs : reqs'[i].starts = reqs[i].starts]_vars

\* The .request_fn queue is stopped with a request waiting in it and starts
\* left; dm_old_request_fn runs, holds the queue lock and is at the test of
\* the flag, while the other request is in flight.
StoppedWithWork ==
    /\ ~q_mq_ops /\ q_stopped
    /\ fn.pc = "check" /\ queue_lock = "request_fn"
    /\ Queued # {}
    /\ \E d \in Dirs : pending[d] = 1

\* The tio of request i is in use: the request is with the driver, or it is
\* a prepared request of the .request_fn queue.
TioLive(i) == InFlight(i) \/ (~q_mq_ops /\ reqs[i].special)

\* C34: every clone obtained for a request (by clone_and_map_rq or by the
\* preparation of the .request_fn queue) is released exactly once on every
\* path: never twice, and none is left when the request was ended or
\* requeued; tio->clone never refers to a released clone, so that after a
\* dispatch that found the lower queue busy the requeue that follows does
\* not free the clone again.
CloneReleasedOnce ==
    \A i \in Rqs :
        /\ reqs[i].released <= reqs[i].obtained
        /\ reqs[i].obtained = reqs[i].released + (IF reqs[i].live THEN 1 ELSE 0)
        /\ (TioLive(i) /\ reqs[i].clone) => reqs[i].live
        /\ ~TioLive(i) => ~reqs[i].live

\* On the .request_fn path over blk-mq devices the clone of request 1 was
\* refused by the lower queue: it was released, map_request requeued the
\* request with a delay, and the clone was released once.
RequeuedAfterDispatchBusy ==
    /\ ~q_mq_ops /\ all_blk_mq
    /\ reqs[1].attempt.requeued /\ reqs[1].attempt.ret = DM_MAPIO_DELAY_REQUEUE
    /\ reqs[1].obtained = 1 /\ reqs[1].released = 1
    /\ ~reqs[1].clone /\ ~reqs[1].live
    /\ reqs[1].st = "queued"

(***************************************************************************)
(* Properties of the SPAN module.                                          *)
(***************************************************************************)
\* C35: after any sequence of completed calls of mirror_add and mirror_del,
\* successful or failing, the ref_count of every SPAN entry is the number
\* of inspected-port records on its bound_ports_list and is not negative,
\* no two entries in use have the same to_dev, and a failed mirror_add
\* leaves the ref_count and the list of every entry as they were.
SpanRefCounting ==
    /\ [](\A i \in SpanIds :
              /\ span_entries[i].ref_count = Len(span_entries[i].bound_ports_list)
              /\ span_entries[i].ref_count >= 0)
    /\ [](\A i, j \in SpanIds :
              (/\ i # j
               /\ span_entries[i].ref_count > 0
               /\ span_entries[j].ref_count > 0)
                  => span_entries[i].to_dev # span_entries[j].to_dev)
    /\ [][(span_ret'.op = "add" /\ span_ret'.ret # 0) =>
              \A i \in SpanIds :
                  /\ span_entries'[i].ref_count = span_entries[i].ref_count
                  /\ span_entries'[i].bound_ports_list = span_entries[i].bound_ports_list]_vars

\* Every entry is in use, each for its own device, and the last call was a
\* mirror_add to one more device, which found no free entry.
AddFailedTableFull ==
    /\ span_ret.op = "add" /\ span_ret.ret = -ENOENT
    /\ \A i \in SpanIds : span_entries[i].ref_count = 1
    /\ \A i, j \in SpanIds : i # j => span_entries[i].to_dev # span_entries[j].to_dev

\* The records with bound set for (port, type), over all the entries.
BoundRecs(port, type) ==
    { ik \in SpanIds \X (1 .. MaxRecs) :
          /\ ik[2] <= Len(span_entries[ik[1]].bound_ports_list)
          /\ span_entries[ik[1]].bound_ports_list[ik[2]] = InspectedPort(port, type, TRUE) }

\* C36 as stated: a mirror_add with bind = true for a (port, direction)
\* that is already bound fails with -EEXIST.
BoundAgainIsEEXIST ==
    (span_ret.op = "add" /\ span_ret.conflict) => span_ret.ret = -EEXIST

\* C36: for each source port and each direction at most one inspected-port
\* record with bound = true exists across all the SPAN entries; a
\* mirror_add with bind = true for a (port, direction) that is already
\* bound fails: with -EOPNOTSUPP when no entry type handles to_dev, with
\* -ENOENT when to_dev has no entry and no entry is free, and with -EEXIST
\* otherwise.
OneAnalyzerPerPortDirection ==
    /\ \A port \in SpanPorts, type \in SpanTypes : Cardinality(BoundRecs(port, type)) <= 1
    /\ (span_ret.op = "add" /\ span_ret.conflict) => span_ret.ret < 0
    /\ \A x \in SpanAddInputs :
           (x.bind /\ IsBound(SpanState, x.from, x.type)) =>
               mirror_add_result(SpanState, x.from, x.to_dev, x.type, x.bind, x.g,
                                 x.ok, x.mtu, x.fail).r =
                   IF mlxsw_sp_span_entry_ops(x.to_dev) = "none" THEN -EOPNOTSUPP
                   ELSE IF /\ mlxsw_sp_span_entry_find_by_port(SpanState, x.to_dev) = NO_ENTRY
                           /\ \A i \in SpanIds : span_entries[i].ref_count # 0
                   THEN -ENOENT
                   ELSE -EEXIST

\* A (port, direction) is bound to one analyzer and the last call, a
\* mirror_add that asked to bind it again, returned -EEXIST.
BoundAgainRefused ==
    /\ span_ret.op = "add" /\ span_ret.conflict /\ span_ret.ret = -EEXIST
    /\ \E port \in SpanPorts, type \in SpanTypes : Cardinality(BoundRecs(port, type)) = 1

\* C38: in every state reached by completed calls of mirror_add and
\* mirror_del, failed ones included, a port that has an egress
\* inspected-port record in some SPAN entry has a mirroring shared buffer
\* of a size that is not 0.
EgressBufferKept ==
    \A port \in SpanPorts :
        mlxsw_sp_span_is_egress_mirror(SpanState, port) => sbib[port] # 0

\* An entry in use whose analyzer should be in the hardware: its ops are
\* not the nop ones and its parms have a destination port.
Offloaded(i) ==
    /\ span_entries[i].ref_count > 0
    /\ span_entries[i].ops # "nop"
    /\ span_entries[i].parms.dest_port # NULL

\* C37: over any sequence of entry create, put and destroy, invalidate and
\* respin, the configures and deconfigures issued to the hardware for one
\* SPAN entry alternate, starting with a configure: no deconfigure is
\* issued for an analyzer that is not configured (whose last configure
\* failed or was undone), no configure for one that is; the analyzer is
\* configured exactly while the entry is in use with a destination port.
ConfigureDeconfigureAlternate ==
    \A i \in SpanIds :
        /\ ~mpat[i].stray
        /\ ~mpat[i].twice
        /\ mpat[i].cfg <=> Offloaded(i)

\* The device of an entry in use was unregistered: invalidate deconfigured
\* the analyzer, which had been configured, and left the nop ops with the
\* old destination port in parms.
InvalidatedAfterConfigure ==
    /\ span_ret.op = "invalidate"
    /\ \E i \in SpanIds :
           /\ span_entries[i].ref_count > 0
           /\ span_entries[i].ops = "nop"
           /\ span_entries[i].parms.dest_port # NULL
           /\ ~mpat[i].cfg

(***************************************************************************)
(* Properties of the registration of the basic types.                      *)
(***************************************************************************)
\* The calls that register the first n types, in the order of the array.
Registered(n) == [k \in 1 .. n |-> <<"register", k>>]

\* The calls that unregister the types n, n - 1, ..., m + 1.
Unregistered(n, m) == [k \in 1 .. n - m |-> <<"unregister", n + 1 - k>>]

\* C39: nf_tables_core_module_init registers the basic types in the order
\* of the array; when the registration of a type fails it unregisters the
\* types registered before it, those and no other, in reverse order, and
\* returns the error, with no basic type left registered; when none fails
\* all the types are registered and it returns 0; and
\* nf_tables_core_module_exit unregisters them all in reverse order.
ModuleInitRollback ==
    /\ modst.pc = "init" =>
           /\ modlog = Registered(modst.i)
           /\ registry = SubSeq(nft_basic_types, 1, modst.i)
    /\ modst.pc = "loaded" =>
           /\ modlog = Registered(Len(nft_basic_types))
           /\ registry = nft_basic_types
           /\ modst.ret = 0
    /\ modst.pc = "err" =>
           /\ modlog = Registered(modst.n) \o Unregistered(modst.n, modst.i)
           /\ registry = SubSeq(nft_basic_types, 1, modst.i)
    /\ modst.pc = "exit" =>
           /\ modlog = Registered(Len(nft_basic_types))
                           \o Unregistered(Len(nft_basic_types), modst.i)
           /\ registry = SubSeq(nft_basic_types, 1, modst.i)
    /\ modst.pc = "unloaded" =>
           /\ registry = <<>>
           /\ modlog = Registered(modst.n) \o Unregistered(modst.n, 0)
           /\ modst.ret = modst.err
           /\ modst.err # 0 => modst.n < Len(nft_basic_types)

\* The registration of the fourth type failed with -ENOMEM: the three
\* types before it were unregistered, the third first, none is registered
\* and nf_tables_core_module_init has returned -ENOMEM.
RolledBackThree ==
    /\ modst.pc = "unloaded" /\ modst.ret = -ENOMEM /\ modst.n = 3
    /\ registry = <<>>
    /\ modlog = <<<<"register", 1>>, <<"register", 2>>, <<"register", 3>>,
                  <<"unregister", 3>>, <<"unregister", 2>>, <<"unregister", 1>>>>

====
